---- MODULE Spec2Model ----
(***************************************************************************)
(* CineFusion backend core: the AVL title index (process/avl.py), the      *)
(* prefix trie (process/trie.py), the response cache and the sliding       *)
(* window rate limiter (main.py).                                          *)
(*                                                                         *)
(* Strings are sequences of character codes (32 = ' ', 65 = 'A',           *)
(* 97 = 'a', ...), compared code by code as Python compares str.           *)
(* Time is counted in ticks of 1/TicksPerSec second, so that readings of   *)
(* time.time() can fall between whole seconds.                             *)
(***************************************************************************)
EXTENDS Integers, Sequences, FiniteSets, TLC

VARIABLES
    root,            \* AVLTree.root
    file,            \* lines of the AVL data file (AVLTree.filename)
    avlKeys,         \* history: trimmed keys inserted and not deleted since
    avlLast,         \* history: the last AVLTree call, what it returned, whether
                     \* it saved the file and whether the tree had the key before
    trieRoot,        \* Trie.root
    suggestions_list,\* Trie.suggestions_list
    trieWords,       \* history: the words put into the trie by insert
    trieSeen,        \* history: <<path, char, k>> when char was the k-th
                     \* character to get a child under the node at path
    trieLast,        \* history: the last Trie call and what it returned
    cache,           \* AdvancedCache.cache: key -> (data, timestamp)
    access_times,    \* AdvancedCache.access_times, in dict order
    max_size, ttl,   \* AdvancedCache.max_size, AdvancedCache.ttl (seconds)
    hits, misses, evictions,
    cacheLast,       \* history: the last AdvancedCache call
    clients,         \* SlidingWindowRateLimiter.clients
    last_cleanup,    \* SlidingWindowRateLimiter.last_cleanup
    admitted,        \* history: per client, the times of its admitted calls
                     \* that are less than one window old
    epoch,           \* history: per client, when its current run of calls
                     \* began (a run begins with a call made when none of the
                     \* client's admitted calls is less than a window old),
                     \* how many calls it has made in it, and whether the
                     \* client had made calls before the run
    rlLast,          \* history: the last is_allowed call and its result
    movies_df,       \* the loaded record set (main.py global movies_df)
    searchCall,      \* a call of search_movies_in_df: its arguments and, once
                     \* it has run, what it computed and returned
    inflight,        \* the requests comprehensive_middleware has handed to
                     \* call_next and whose handler has not run yet
    issued,          \* history: how many requests have reached the middleware
    apiLast,         \* history: the last step of a request and its response
    answers,         \* history: per request, the answer last computed for it
                     \* on a cache miss, while its cache entry has neither been
                     \* evicted nor cleared
    reload_at,       \* where the reload_data coroutine stands: idle, or the
                     \* statement it runs next, the rows it has read and the
                     \* title it inserts next
    observed,        \* history: the record set, the tree keys and the trie
                     \* words the handler that ran last found
    threads,         \* per reader thread, the Trie or AVLTree call it is in,
                     \* the statement it runs next, the words it has yet to
                     \* visit and the value it returned
    now              \* the clock read by time.time(), in ticks

avlVars   == <<root, file, avlKeys, avlLast>>
trieVars  == <<trieRoot, suggestions_list, trieWords, trieSeen, trieLast>>
cacheVars == <<cache, access_times, max_size, ttl, hits, misses, evictions, cacheLast>>
rateVars  == <<clients, last_cleanup, admitted, epoch, rlLast>>
dataVars  == <<movies_df, searchCall>>
apiVars   == <<inflight, issued, apiLast, answers>>
concVars  == <<reload_at, observed, threads>>
vars == <<avlVars, trieVars, cacheVars, rateVars, dataVars, apiVars, concVars, now>>

\* what the calls on one component leave alone
notAvl   == <<trieVars, cacheVars, rateVars, dataVars, apiVars, concVars, now>>
notTrie  == <<avlVars, cacheVars, rateVars, dataVars, apiVars, concVars, now>>
notCache == <<avlVars, trieVars, rateVars, dataVars, apiVars, concVars>>
notRate  == <<avlVars, trieVars, cacheVars, dataVars, apiVars, concVars>>
notData  == <<avlVars, trieVars, cacheVars, rateVars, apiVars, concVars, now>>

Max(a, b) == IF a >= b THEN a ELSE b
Min(a, b) == IF a <= b THEN a ELSE b

(***************************************************************************)
(* Strings                                                                 *)
(***************************************************************************)
SP == 32

\* str.isspace() on the characters the model uses
IsSpace(c) == c \in {9, 10, 13, 32}

\* str.lower() on one ASCII character
LowerChar(c) == IF c >= 65 /\ c <= 90 THEN c + 32 ELSE c

\* str.lower()
Lower(s) == [i \in 1..Len(s) |-> LowerChar(s[i])]

\* str.strip(): drop leading and trailing whitespace
Strip(s) ==
    LET idx == {i \in 1..Len(s) : ~IsSpace(s[i])}
    IN  IF idx = {} THEN <<>>
        ELSE LET lo == CHOOSE i \in idx : \A j \in idx : i <= j
                 hi == CHOOSE i \in idx : \A j \in idx : i >= j
             IN  SubSeq(s, lo, hi)

\* Python's a < b on str: lexicographic on code points
StrLess(a, b) ==
    \E i \in 1..(Min(Len(a), Len(b)) + 1) :
        /\ \A j \in 1..(i - 1) : a[j] = b[j]
        /\ IF i > Len(a) THEN i <= Len(b)
           ELSE i <= Len(b) /\ a[i] < b[i]

\* str.startswith
StartsWith(s, p) == Len(p) <= Len(s) /\ SubSeq(s, 1, Len(p)) = p

(***************************************************************************)
(* Bounds and inputs of the AVL tree                                       *)
(***************************************************************************)
MaxKeys == 5

\* distinct titles: "A", "Ab", "B", "a", "ab", "b", "Ba", "aB"
Titles == << <<65>>, <<65, 98>>, <<66>>, <<97>>, <<97, 98>>, <<98>>,
             <<66, 97>>, <<97, 66>> >>

TitleSet == {Titles[i] : i \in 1..Min(MaxKeys, Len(Titles))}

\* a title with blanks around it
Padded(w) == <<SP>> \o w \o <<SP>>

AvlInputs == TitleSet \cup {Padded(Titles[1]), Padded(Titles[2])}
                 \cup {<<>>, <<SP>>}

(***************************************************************************)
(* AVL tree (process/avl.py)                                               *)
(***************************************************************************)
\* None
Nil == [nil |-> TRUE]
IsNil(n) == "nil" \in DOMAIN n

\* AVLNode.__init__; id is the object's address, 0 for a newly made object
AVLNode(key) == [key |-> key, left |-> Nil, right |-> Nil, height |-> 1, id |-> 0]

\* the address of an object reference, None having one of its own
Addr(n) == IF IsNil(n) THEN -1 ELSE n.id

_height(node) == IF IsNil(node) THEN 0 ELSE node.height

_update_height(node) ==
    IF IsNil(node) THEN node
    ELSE [node EXCEPT !.height = Max(_height(node.left), _height(node.right)) + 1]

_balance_factor(node) ==
    IF IsNil(node) THEN 0 ELSE _height(node.left) - _height(node.right)

_rotate_left(y) ==
    LET x == y.right
    IN  IF IsNil(x) THEN y
        ELSE LET y2 == _update_height([y EXCEPT !.right = x.left])
             IN  _update_height([x EXCEPT !.left = y2])

_rotate_right(x) ==
    LET y == x.left
    IN  IF IsNil(y) THEN x
        ELSE LET x2 == _update_height([x EXCEPT !.left = y.right])
             IN  _update_height([y EXCEPT !.right = x2])

\* _balance without the rotation of the child that a left-right or
\* right-left case needs first
_balance_single_only(node0) ==
    IF IsNil(node0) THEN Nil
    ELSE LET node == [node0 EXCEPT !.height =
                          Max(_height(node0.left), _height(node0.right)) + 1]
             balance == _balance_factor(node)
         IN  IF balance > 1 THEN _rotate_right(node)
             ELSE IF balance < -1 THEN _rotate_left(node)
             ELSE node

_balance(node0) ==
    IF IsNil(node0) THEN Nil
    ELSE LET node == [node0 EXCEPT !.height =
                          Max(_height(node0.left), _height(node0.right)) + 1]
             balance == _balance_factor(node)
         IN  IF balance > 1
             THEN IF ~IsNil(node.left) /\ _balance_factor(node.left) < 0
                  THEN _rotate_right([node EXCEPT !.left = _rotate_left(node.left)])
                  ELSE _rotate_right(node)
             ELSE IF balance < -1
             THEN IF ~IsNil(node.right) /\ _balance_factor(node.right) > 0
                  THEN _rotate_left([node EXCEPT !.right = _rotate_right(node.right)])
                  ELSE _rotate_left(node)
             ELSE node

\* _insert without the test for a duplicate: an equal key goes to the right
RECURSIVE _insert_no_duplicate_test(_, _)
_insert_no_duplicate_test(node, key) ==
    IF IsNil(node) THEN AVLNode(key)
    ELSE IF StrLess(key, node.key)
         THEN _balance([node EXCEPT !.left = _insert_no_duplicate_test(node.left, key)])
         ELSE _balance([node EXCEPT !.right = _insert_no_duplicate_test(node.right, key)])

RECURSIVE _insert(_, _)
_insert(node, key) ==
    IF IsNil(node) THEN AVLNode(key)
    ELSE IF key = node.key THEN node
    ELSE IF StrLess(key, node.key)
         THEN _balance([node EXCEPT !.left = _insert(node.left, key)])
         ELSE _balance([node EXCEPT !.right = _insert(node.right, key)])

RECURSIVE _find_min(_)
_find_min(node) == IF IsNil(node.left) THEN node ELSE _find_min(node.left)

\* _delete that copies the successor's key up but leaves the successor in
\* the right subtree
RECURSIVE _delete_keeps_successor(_, _)
_delete_keeps_successor(node, key) ==
    IF IsNil(node) THEN node
    ELSE IF StrLess(key, node.key)
         THEN _balance([node EXCEPT !.left = _delete_keeps_successor(node.left, key)])
    ELSE IF StrLess(node.key, key)
         THEN _balance([node EXCEPT !.right = _delete_keeps_successor(node.right, key)])
    ELSE IF IsNil(node.left) THEN node.right
    ELSE IF IsNil(node.right) THEN node.left
    ELSE _balance([node EXCEPT !.key = _find_min(node.right).key])

\* _delete without the descent to the right: a key that is not smaller than
\* the node's is taken to be the node's
RECURSIVE _delete_no_right_descent(_, _)
_delete_no_right_descent(node, key) ==
    IF IsNil(node) THEN node
    ELSE IF StrLess(key, node.key)
         THEN _balance([node EXCEPT !.left = _delete_no_right_descent(node.left, key)])
    ELSE IF IsNil(node.left) THEN node.right
    ELSE IF IsNil(node.right) THEN node.left
    ELSE LET temp == _find_min(node.right)
         IN  _balance([node EXCEPT !.key = temp.key,
                                   !.right = _delete_no_right_descent(node.right,
                                                                      temp.key)])

RECURSIVE _delete(_, _)
_delete(node, key) ==
    IF IsNil(node) THEN node
    ELSE IF StrLess(key, node.key)
         THEN _balance([node EXCEPT !.left = _delete(node.left, key)])
    ELSE IF StrLess(node.key, key)
         THEN _balance([node EXCEPT !.right = _delete(node.right, key)])
    ELSE IF IsNil(node.left) THEN node.right
    ELSE IF IsNil(node.right) THEN node.left
    ELSE LET temp == _find_min(node.right)
         IN  _balance([node EXCEPT !.key = temp.key,
                                   !.right = _delete(node.right, temp.key)])

RECURSIVE _search(_, _)
_search(node, key) ==
    IF IsNil(node) THEN FALSE
    ELSE IF key = node.key THEN TRUE
    ELSE IF StrLess(key, node.key) THEN _search(node.left, key)
    ELSE _search(node.right, key)

\* AVLTree.search
search(key) == IF key = <<>> THEN FALSE ELSE _search(root, Strip(key))

RECURSIVE _inorder(_)
_inorder(node) ==
    IF IsNil(node) THEN <<>>
    ELSE _inorder(node.left) \o <<node.key>> \o _inorder(node.right)

\* AVLTree.inorder
inorder == _inorder(root)

\* AVLTree._write_tree: one key per line, node before its subtrees
RECURSIVE _write_tree(_)
_write_tree(node) ==
    IF IsNil(node) THEN <<>>
    ELSE <<node.key>> \o _write_tree(node.left) \o _write_tree(node.right)

RECURSIVE count_nodes(_)
count_nodes(node) ==
    IF IsNil(node) THEN 0 ELSE 1 + count_nodes(node.left) + count_nodes(node.right)

\* Addresses are compared only inside one call (root != old_root), so the
\* heap is kept up to a renaming of addresses: after a call the live nodes
\* are renumbered 1..n in pre-order and 0 stays free for the next new node.
RECURSIVE Renumber(_, _)
Renumber(node, first) ==
    IF IsNil(node) THEN node
    ELSE [node EXCEPT !.id = first,
                      !.left = Renumber(node.left, first + 1),
                      !.right = Renumber(node.right, first + 1 + count_nodes(node.left))]

\* AVLTree.insert
insert(key) ==
    IF key = <<>> \/ Strip(key) = <<>>
    THEN /\ avlLast' = [op |-> "insert", key |-> key, ret |-> FALSE, saved |-> FALSE,
                      had |-> FALSE]
         /\ UNCHANGED <<root, file, avlKeys>>
    ELSE LET k == Strip(key)
             old_root == root
             new_root == _insert(root, k)
             changed == Addr(new_root) # Addr(old_root)
         IN  /\ root' = Renumber(new_root, 1)
             /\ file' = IF changed THEN _write_tree(new_root) ELSE file
             /\ avlKeys' = avlKeys \cup {k}
             /\ avlLast' = [op |-> "insert", key |-> key, ret |-> TRUE, saved |-> changed,
                          had |-> _search(root, k)]

\* AVLTree.delete
delete(key) ==
    IF key = <<>> \/ Strip(key) = <<>>
    THEN /\ avlLast' = [op |-> "delete", key |-> key, ret |-> FALSE, saved |-> FALSE,
                      had |-> FALSE]
         /\ UNCHANGED <<root, file, avlKeys>>
    ELSE LET k == Strip(key)
             old_root == root
             new_root == _delete(root, k)
             changed == Addr(new_root) # Addr(old_root)
         IN  /\ root' = Renumber(new_root, 1)
             /\ file' = IF changed THEN _write_tree(new_root) ELSE file
             /\ avlKeys' = avlKeys \ {k}
             /\ avlLast' = [op |-> "delete", key |-> key, ret |-> changed, saved |-> changed,
                          had |-> _search(root, k)]

AvlInsert == \E key \in AvlInputs : insert(key)
AvlDelete == \E key \in AvlInputs : delete(key)

AvlInit ==
    /\ root = Nil
    /\ file = <<>>
    /\ avlKeys = {}
    /\ avlLast = [op |-> "init", key |-> <<>>, ret |-> FALSE, saved |-> FALSE,
                 had |-> FALSE]

(***************************************************************************)
(* Bounds and inputs of the trie                                           *)
(***************************************************************************)
MaxTrieWords == 4

\* "Avatar", "Avengers", "Batman", "Av", "a", "BAT", "avatars"
TrieWordList ==
    << <<65, 118, 97, 116, 97, 114>>,
       <<65, 118, 101, 110, 103, 101, 114, 115>>,
       <<66, 97, 116, 109, 97, 110>>,
       <<65, 118>>,
       <<97>>,
       <<66, 65, 84>>,
       <<97, 118, 97, 116, 97, 114, 115>> >>

TrieWordSet == {TrieWordList[i] : i \in 1..Min(MaxTrieWords, Len(TrieWordList))}

\* what callers hand to insert: the words, the empty string and a blank
TrieInputs == TrieWordSet \cup {<<>>, <<SP>>}

\* what the lists handed to formTrie are made of: a word with blanks around
\* it, a bare word, the empty string and a blank
FormInputs == {Padded(TrieWordList[1]), TrieWordList[3], <<>>, <<SP>>}

\* what callers ask suggestions for: every prefix of every input, the
\* upper-case "AV", and "x" and "Batmanx" that lead nowhere
TriePrefixes ==
    UNION {{SubSeq(w, 1, n) : n \in 0..Len(w)} : w \in TrieWordSet}
        \cup {<<65, 86>>, <<120>>, <<66, 97, 116, 109, 97, 110, 120>>, <<SP>>}

\* the lists formTrie is called with
FormLists == UNION {[1..n -> FormInputs] : n \in 0..2}

\* the filling scenario: a list of FillCount words handed to insert, more
\* than the suggestion limit, all below "m"
FillCount == 22

\* "ME", then "Mea", "Mda", "Mca", "Mba", "Maa", "Meb", "Mdb", ...: the second
\* letters arrive in the order e, d, c, b, a
FillWord(i) ==
    IF i = 1 THEN <<77, 69>>
    ELSE <<77, 101 - ((i - 2) % 5), 97 + ((i - 2) \div 5)>>

\* the prefixes asked for: "", "M", "me", "MD", "mea", "x"
FillPrefixes == {<<>>, <<77>>, <<109, 101>>, <<77, 68>>, <<109, 101, 97>>, <<120>>}

\* the max_results asked for, 10 being the default
FillCaps == {0, 1, 3, 10, 25}

(***************************************************************************)
(* Trie (process/trie.py)                                                  *)
(***************************************************************************)
\* the limit written into _suggestion_rec
SuggestionLimit == 20

\* TrieNode.__init__; children is the dict as the sequence of its items,
\* in insertion order
TrieNode == [children |-> <<>>, is_end_of_word |-> FALSE]

\* char in node.children
HasChild(node, char) == \E i \in 1..Len(node.children) : node.children[i].char = char

\* the position of char in the dict's item order
ChildIndex(node, char) == CHOOSE i \in 1..Len(node.children) : node.children[i].char = char

\* node.children[char]
Child(node, char) == node.children[ChildIndex(node, char)].node

\* the loop of Trie.insert from character i of the lowercased word on
RECURSIVE _insert_from(_, _, _)
_insert_from(node, word, i) ==
    IF i > Len(word) THEN [node EXCEPT !.is_end_of_word = TRUE]
    ELSE LET char == word[i]
             withChild == IF HasChild(node, char) THEN node
                          ELSE [node EXCEPT !.children =
                                   Append(@, [char |-> char, node |-> TrieNode])]
             j == ChildIndex(withChild, char)
         IN  [withChild EXCEPT !.children[j].node =
                 _insert_from(withChild.children[j].node, word, i + 1)]

\* Trie.insert without word.lower()
TrieInsertInto_raw(r, word) ==
    IF word = <<>> THEN r ELSE _insert_from(r, word, 1)

\* Trie.insert applied to a trie root; returns the new root
TrieInsertInto(r, word) ==
    IF word = <<>> THEN r ELSE _insert_from(r, Lower(word), 1)

\* Trie.formTrie applied to a trie root
RECURSIVE TrieFormInto(_, _, _)
TrieFormInto(r, keys, i) ==
    IF i > Len(keys) THEN r
    ELSE IF keys[i] # <<>>
         THEN CHOOSE formed \in {TrieFormInto(done, keys, i + 1) :
                                    done \in {TrieInsertInto(r, Strip(keys[i]))}} : TRUE
         ELSE TrieFormInto(r, keys, i + 1)

\* the prefix walk of printAutoSuggestions / search / get_all_words_with_prefix:
\* the node reached, or Nil when a character has no child
RECURSIVE Walk(_, _, _)
Walk(node, s, i) ==
    IF i > Len(s) THEN node
    ELSE IF ~HasChild(node, s[i]) THEN Nil
    ELSE Walk(Child(node, s[i]), s, i + 1)

\* Trie._suggestion_rec; acc is self.suggestions_list
RECURSIVE _suggestion_rec(_, _, _)
RECURSIVE _suggestion_children(_, _, _, _)
_suggestion_rec(node, word, acc) ==
    IF Len(acc) >= SuggestionLimit THEN acc
    ELSE LET acc1 == IF node.is_end_of_word THEN Append(acc, word) ELSE acc
         IN  _suggestion_children(node.children, 1, word, acc1)

\* the loop taking the children from the last one inserted to the first
RECURSIVE _suggestion_children_reversed(_, _, _, _)
_suggestion_children_reversed(children, i, word, acc) ==
    IF i > Len(children) THEN acc
    ELSE LET c == children[Len(children) + 1 - i]
             acc1 == IF Len(acc) < SuggestionLimit
                     THEN _suggestion_rec(c.node, Append(word, c.char), acc)
                     ELSE acc
         IN  _suggestion_children_reversed(children, i + 1, word, acc1)

\* the for loop over node.children.items() in _suggestion_rec
_suggestion_children(children, i, word, acc) ==
    IF i > Len(children) THEN acc
    ELSE LET acc1 == IF Len(acc) < SuggestionLimit
                     THEN _suggestion_rec(children[i].node,
                                          Append(word, children[i].char), acc)
                     ELSE acc
         IN  _suggestion_children(children, i + 1, word, acc1)

\* the results of printAutoSuggestions: code 0 and -1 as in the source,
\* code 1 with the list when a list is returned
NOT_FOUND == [code |-> 0, list |-> <<>>]
NO_COMPLETIONS == [code |-> -1, list |-> <<>>]
Suggestions(l) == [code |-> 1, list |-> l]

\* printAutoSuggestions walking the prefix as given, without prefix.lower()
printAutoSuggestionsOn_raw(r, prefix, old) ==
    IF prefix = <<>> THEN [ret |-> NOT_FOUND, list |-> old]
    ELSE LET node == Walk(r, prefix, 1)
         IN  IF IsNil(node) THEN [ret |-> NOT_FOUND, list |-> <<>>]
             ELSE IF node.children = <<>> THEN [ret |-> NO_COMPLETIONS, list |-> <<>>]
             ELSE LET l == _suggestion_rec(node, prefix, <<>>)
                  IN  [ret |-> IF l # <<>> THEN Suggestions(l) ELSE NOT_FOUND,
                       list |-> l]

\* Trie.printAutoSuggestions on trie root r: the value returned and the
\* suggestions_list left behind (old is the list before the call)
printAutoSuggestionsOn(r, prefix, old) ==
    IF prefix = <<>> THEN [ret |-> NOT_FOUND, list |-> old]
    ELSE LET node == Walk(r, Lower(prefix), 1)
         IN  IF IsNil(node) THEN [ret |-> NOT_FOUND, list |-> <<>>]
             ELSE IF node.children = <<>> THEN [ret |-> NO_COMPLETIONS, list |-> <<>>]
             ELSE LET l == _suggestion_rec(node, Lower(prefix), <<>>)
                  IN  [ret |-> IF l # <<>> THEN Suggestions(l) ELSE NOT_FOUND,
                       list |-> l]

\* Trie._collect_words
RECURSIVE _collect_words(_, _, _, _)
RECURSIVE _collect_children(_, _, _, _, _)
_collect_words(node, current_word, results, max_results) ==
    IF Len(results) >= max_results THEN results
    ELSE LET results1 == IF node.is_end_of_word THEN Append(results, current_word)
                         ELSE results
         IN  _collect_children(node.children, 1, current_word, results1, max_results)

\* the for loop over node.children.items() in _collect_words
_collect_children(children, i, current_word, results, max_results) ==
    IF i > Len(children) THEN results
    ELSE LET results1 == IF Len(results) < max_results
                         THEN _collect_words(children[i].node,
                                             Append(current_word, children[i].char),
                                             results, max_results)
                         ELSE results
         IN  _collect_children(children, i + 1, current_word, results1, max_results)

\* get_all_words_with_prefix keeping the prefix as given in the words it
\* builds
get_all_words_with_prefixOn_raw(r, prefix, max_results) ==
    IF prefix = <<>> THEN <<>>
    ELSE LET node == Walk(r, Lower(prefix), 1)
         IN  IF IsNil(node) THEN <<>>
             ELSE _collect_words(node, prefix, <<>>, max_results)

\* Trie.get_all_words_with_prefix on trie root r
get_all_words_with_prefixOn(r, prefix, max_results) ==
    IF prefix = <<>> THEN <<>>
    ELSE LET node == Walk(r, Lower(prefix), 1)
         IN  IF IsNil(node) THEN <<>>
             ELSE _collect_words(node, Lower(prefix), <<>>, max_results)

\* Trie.search
trie_search(word) ==
    IF word = <<>> THEN FALSE
    ELSE LET node == Walk(trieRoot, Lower(word), 1)
         IN  IF IsNil(node) THEN FALSE ELSE node.is_end_of_word

\* history: the words insert puts in, i.e. its non-empty arguments lowercased
Recorded(word) == IF word = <<>> THEN {} ELSE {Lower(word)}

\* history: the characters that have a child under the node at path
SeenUnder(seen, path) == {e \in seen : e[1] = path}

\* history after insert(word): each character of the lowercased word that
\* was not yet seen under the path before it becomes the next one there
SeenAfter(seen, word) ==
    LET w == Lower(word)
    IN  seen \cup
        {<<SubSeq(w, 1, i - 1), w[i],
           Cardinality(SeenUnder(seen, SubSeq(w, 1, i - 1))) + 1>> :
             i \in {j \in 1..Len(w) :
                       \A e \in SeenUnder(seen, SubSeq(w, 1, j - 1)) : e[2] # w[j]}}

\* history after formTrie(keys)
RECURSIVE SeenAfterForm(_, _, _)
SeenAfterForm(seen, keys, i) ==
    IF i > Len(keys) THEN seen
    ELSE IF keys[i] # <<>>
         THEN CHOOSE formed \in {SeenAfterForm(done, keys, i + 1) :
                                    done \in {SeenAfter(seen, Strip(keys[i]))}} : TRUE
         ELSE SeenAfterForm(seen, keys, i + 1)

\* Trie.insert
TrieInsert ==
    \E word \in TrieInputs :
        /\ trieRoot' = TrieInsertInto(trieRoot, word)
        /\ trieWords' = trieWords \cup Recorded(word)
        /\ trieSeen' = SeenAfter(trieSeen, word)
        /\ trieLast' = [op |-> "insert", arg |-> word, max |-> 0, ret |-> NOT_FOUND]
        /\ UNCHANGED suggestions_list

\* Trie.formTrie
TrieFormTrie ==
    \E keys \in FormLists :
        /\ trieRoot' = TrieFormInto(trieRoot, keys, 1)
        /\ trieWords' = trieWords \cup
               UNION {IF keys[i] # <<>> THEN Recorded(Strip(keys[i])) ELSE {}
                          : i \in 1..Len(keys)}
        /\ trieSeen' = SeenAfterForm(trieSeen, keys, 1)
        /\ trieLast' = [op |-> "formTrie", arg |-> keys, max |-> 0, ret |-> NOT_FOUND]
        /\ UNCHANGED suggestions_list

\* Trie.printAutoSuggestions
TriePrintAutoSuggestions ==
    \E prefix \in TriePrefixes :
        LET r == printAutoSuggestionsOn(trieRoot, prefix, suggestions_list)
        IN  /\ suggestions_list' = r.list
            /\ trieLast' = [op |-> "printAutoSuggestions", arg |-> prefix, max |-> 0,
                           ret |-> r.ret]
            /\ UNCHANGED <<trieRoot, trieWords, trieSeen>>

\* the filling scenario: the list is inserted in order, after a first word
\* that is any of the first three
FillNext ==
    LET missing == {i \in 1..FillCount : Lower(FillWord(i)) \notin trieWords}
    IN  IF trieWords = {} THEN {i \in missing : i <= 3}
        ELSE {i \in missing : \A j \in missing : i <= j}

\* Trie.insert in the filling scenario
FillInsert ==
    \E i \in FillNext :
        /\ trieRoot' = TrieInsertInto(trieRoot, FillWord(i))
        /\ trieWords' = trieWords \cup Recorded(FillWord(i))
        /\ trieSeen' = SeenAfter(trieSeen, FillWord(i))
        /\ trieLast' = [op |-> "insert", arg |-> FillWord(i), max |-> 0,
                       ret |-> NOT_FOUND]
        /\ UNCHANGED suggestions_list

\* Trie.printAutoSuggestions in the filling scenario
FillPrintAutoSuggestions ==
    \E prefix \in FillPrefixes :
        LET r == printAutoSuggestionsOn(trieRoot, prefix, suggestions_list)
        IN  /\ suggestions_list' = r.list
            /\ trieLast' = [op |-> "printAutoSuggestions", arg |-> prefix, max |-> 0,
                           ret |-> r.ret]
            /\ UNCHANGED <<trieRoot, trieWords, trieSeen>>

\* Trie.get_all_words_with_prefix in the filling scenario
FillGetAllWords ==
    \E prefix \in FillPrefixes, max_results \in FillCaps :
        /\ trieLast' = [op |-> "get_all_words_with_prefix", arg |-> prefix,
                       max |-> max_results,
                       ret |-> Suggestions(get_all_words_with_prefixOn(
                                               trieRoot, prefix, max_results))]
        /\ UNCHANGED <<trieRoot, suggestions_list, trieWords, trieSeen>>

TrieInit ==
    /\ trieRoot = TrieNode
    /\ suggestions_list = <<>>
    /\ trieWords = {}
    /\ trieSeen = {}
    /\ trieLast = [op |-> "init", arg |-> <<>>, max |-> 0, ret |-> NOT_FOUND]

(***************************************************************************)
(* Time                                                                    *)
(***************************************************************************)
\* clock ticks per second: time.time() is a float, a tick is half a second
TicksPerSec == 2

Ticks(seconds) == seconds * TicksPerSec

\* int(x) on a non-negative time x given in ticks: whole seconds, in ticks
IntSeconds(x) == x - (x % TicksPerSec)

(***************************************************************************)
(* Python dicts as the sequence of their items, in insertion order         *)
(***************************************************************************)
\* key in d
DictHas(d, k) == \E i \in 1..Len(d) : d[i].key = k

DictIndex(d, k) == CHOOSE i \in 1..Len(d) : d[i].key = k

\* d[key]
DictGet(d, k) == d[DictIndex(d, k)]

\* d[key] = item: a present key keeps its place, a new one goes last
DictPut(d, item) ==
    IF DictHas(d, item.key) THEN [d EXCEPT ![DictIndex(d, item.key)] = item]
    ELSE Append(d, item)

\* del d[key]
DictDel(d, k) == SelectSeq(d, LAMBDA e : e.key # k)

DictKeys(d) == {d[i].key : i \in 1..Len(d)}

(***************************************************************************)
(* Bounds and inputs of the cache                                          *)
(***************************************************************************)
MaxGets == 2
MaxEvictions == 2

\* the max_size and ttl_seconds the cache may be constructed with
SizeChoices == {1, 2}
TtlChoices == {0, 1}

\* the clock runs until an entry made at the start has lived a second
MaxCacheTime == Ticks(1)

CacheKeys == {1, 2, 3}
CacheValues == {1, 2}

\* the filling scenario: a cache of FillSize entries with a ttl of one
\* second is handed FillSize + 1 distinct keys, one value
FillSize == 10
FillKeys == 1..(FillSize + 1)
MaxFillGets == 2

\* the None that get returns on a miss
None == 0

(***************************************************************************)
(* AdvancedCache (main.py)                                                 *)
(***************************************************************************)
\* time.time() - timestamp < self.ttl, the test of get
Fresh_inverted(timestamp, t) == t - timestamp >= Ticks(ttl)

\* the test with <= for <
Fresh_inclusive(timestamp, t) == t - timestamp <= Ticks(ttl)

Fresh(timestamp, t) == t - timestamp < Ticks(ttl)

\* len(self.cache) >= self.max_size, the test of set
IsFull_strict(c) == Len(c) > max_size

IsFull(c) == Len(c) >= max_size

\* history record of a call: what was called with what, what it returned,
\* the keys _evict_lru removed, when, whether the cache held the key before
\* the call, and whether the call before it was a set of the same key at the
\* same instant
CacheCall(op, key, value, ret, removed) ==
    [op |-> op, key |-> key, value |-> value, ret |-> ret, removed |-> removed,
     time |-> now,
     had |-> \E i \in 1..Len(cache) : cache[i].key = key,
     after_set |-> cacheLast.op = "set" /\ cacheLast.key = key /\ cacheLast.time = now]

\* the entries _cleanup_expired finds expired
ExpiredKeys(c, t) == {c[i].key : i \in {j \in 1..Len(c) : t - c[j].timestamp >= Ticks(ttl)}}

\* AdvancedCache._cleanup_expired on (cache, access_times)
_cleanup_expired(c, a, t) ==
    LET expired_keys == ExpiredKeys(c, t)
    IN  [cache |-> SelectSeq(c, LAMBDA e : e.key \notin expired_keys),
         access_times |-> SelectSeq(a, LAMBDA e : e.key \notin expired_keys)]

\* the items left in dict order
SortedByTime_unsorted(a) == a

\* sorted(items, key=lambda x: x[1]): stable, equal times keep dict order
RECURSIVE SortedByTime(_)
SortedByTime(a) ==
    IF a = <<>> THEN <<>>
    ELSE LET front == SortedByTime(SubSeq(a, 1, Len(a) - 1))
             x == a[Len(a)]
             n == Cardinality({i \in 1..Len(front) : front[i].time <= x.time})
         IN  SubSeq(front, 1, n) \o <<x>> \o SubSeq(front, n + 1, Len(front))

\* AdvancedCache._evict_lru on (cache, access_times): the two dicts after
\* it and the keys it removed, in the order removed
_evict_lru(c, a) ==
    IF a = <<>> THEN [cache |-> c, access_times |-> a, removed |-> <<>>]
    ELSE LET num_to_remove == Max(1, max_size \div 5)
             sorted_keys == SortedByTime(a)
             victims == SubSeq(sorted_keys, 1, Min(num_to_remove, Len(sorted_keys)))
             gone == {victims[i].key : i \in 1..Len(victims)}
         IN  [cache |-> SelectSeq(c, LAMBDA e : e.key \notin gone),
              access_times |-> SelectSeq(a, LAMBDA e : e.key \notin gone),
              removed |-> [i \in 1..Len(victims) |-> victims[i].key]]

\* AdvancedCache.get on (cache, access_times) at clock reading t: whether
\* it is a hit, and the two dicts after it
getOn(c, a, key, t) ==
    IF DictHas(c, key) /\ Fresh(DictGet(c, key).timestamp, t)
    THEN [hit |-> TRUE, cache |-> c,
          access_times |-> DictPut(a, [key |-> key, time |-> t])]
    ELSE [hit |-> FALSE, cache |-> DictDel(c, key),
          access_times |-> IF DictHas(c, key) THEN DictDel(a, key) ELSE a]

\* AdvancedCache.set on (cache, access_times) at clock reading t: the two
\* dicts after it and the keys _evict_lru removed
setOn(c, a, key, value, t) ==
    LET swept == _cleanup_expired(c, a, t)
        full == IsFull(swept.cache)
        kept == IF full THEN _evict_lru(swept.cache, swept.access_times)
                ELSE [cache |-> swept.cache, access_times |-> swept.access_times,
                      removed |-> <<>>]
    IN  [cache |-> DictPut(kept.cache, [key |-> key, data |-> value, timestamp |-> t]),
         access_times |-> DictPut(kept.access_times, [key |-> key, time |-> t]),
         removed |-> kept.removed]

\* AdvancedCache.get
get(key) ==
    LET got == getOn(cache, access_times, key, now)
    IN  /\ cache' = got.cache
        /\ access_times' = got.access_times
        /\ hits' = IF got.hit THEN hits + 1 ELSE hits
        /\ misses' = IF got.hit THEN misses ELSE misses + 1
        /\ cacheLast' = CacheCall("get", key, None,
                                  IF got.hit THEN DictGet(cache, key).data ELSE None,
                                  <<>>)
        /\ UNCHANGED evictions

\* AdvancedCache.set
set(key, value) ==
    LET put == setOn(cache, access_times, key, value, now)
    IN  /\ cache' = put.cache
        /\ access_times' = put.access_times
        /\ evictions' = evictions + Len(put.removed)
        /\ cacheLast' = CacheCall("set", key, value, None, put.removed)
        /\ UNCHANGED <<hits, misses>>

\* clear that also resets the counters
clear_resetting_counters ==
    /\ cache' = <<>>
    /\ access_times' = <<>>
    /\ cacheLast' = CacheCall("clear", 0, None, None, <<>>)
    /\ hits' = 0
    /\ misses' = 0
    /\ evictions' = 0

\* AdvancedCache.clear
clear ==
    /\ cache' = <<>>
    /\ access_times' = <<>>
    /\ cacheLast' = CacheCall("clear", 0, None, None, <<>>)
    /\ UNCHANGED <<hits, misses, evictions>>

\* periodic_cache_cleanup: the background call of _cleanup_expired
periodic_cache_cleanup ==
    LET swept == _cleanup_expired(cache, access_times, now)
    IN  /\ cache' = swept.cache
        /\ access_times' = swept.access_times
        /\ cacheLast' = CacheCall("cleanup", 0, None, None, <<>>)
        /\ UNCHANGED <<hits, misses, evictions>>

CacheGet ==
    /\ hits + misses < MaxGets
    /\ \E key \in CacheKeys : get(key)
    /\ UNCHANGED <<max_size, ttl, now>>

CacheSet ==
    /\ evictions < MaxEvictions
    /\ \E key \in CacheKeys, value \in CacheValues : set(key, value)
    /\ UNCHANGED <<max_size, ttl, now>>

CacheClear == clear /\ UNCHANGED <<max_size, ttl, now>>

CacheCleanup == periodic_cache_cleanup /\ UNCHANGED <<max_size, ttl, now>>

\* time passes
CacheTick ==
    /\ now < MaxCacheTime
    /\ now' = now + 1
    /\ UNCHANGED cacheVars

\* the filling scenario: until the cache has evicted for capacity, each new
\* key is the smallest one not in the cache
FillSet ==
    /\ evictions = 0
    /\ \E key \in FillKeys :
          /\ ~DictHas(cache, key)
          /\ \A other \in FillKeys : other < key => DictHas(cache, other)
          /\ set(key, 1)
    /\ UNCHANGED <<max_size, ttl, now>>

FillGet ==
    /\ hits + misses < MaxFillGets
    /\ \E key \in FillKeys : DictHas(cache, key) /\ get(key)
    /\ UNCHANGED <<max_size, ttl, now>>

FillTick ==
    /\ now < Ticks(1)
    /\ now' = now + 1
    /\ UNCHANGED cacheVars

\* AdvancedCache.__init__
CacheInit ==
    /\ cache = <<>>
    /\ access_times = <<>>
    /\ max_size \in SizeChoices
    /\ ttl \in TtlChoices
    /\ hits = 0
    /\ misses = 0
    /\ evictions = 0
    /\ cacheLast = [op |-> "init", key |-> 0, value |-> None, ret |-> None,
                    removed |-> <<>>, time |-> 0, had |-> FALSE,
                    after_set |-> FALSE]

(***************************************************************************)
(* Bounds and inputs of the rate limiter                                   *)
(***************************************************************************)
\* SlidingWindowRateLimiter(requests, window_seconds) as constructed
RateLimitRequests == 2

\* self.requests, self.window (seconds), self.cleanup_interval (seconds)
requests == RateLimitRequests
window == 60
cleanup_interval == 60

\* requests arrive on a grid of GridSeconds seconds, on the whole second or
\* a tick later, until a cleanup interval and a grid step have gone by
GridSeconds == 30

Instants == {Ticks(a * GridSeconds) + b :
                a \in 0..((cleanup_interval + GridSeconds) \div GridSeconds),
                b \in {0, 1}}

Clients == {1, 2}

(***************************************************************************)
(* SlidingWindowRateLimiter (main.py)                                      *)
(***************************************************************************)
\* the filter with now - r <= self.window
Recent_inclusive(reqs, t) == SelectSeq(reqs, LAMBDA r : t - r <= Ticks(window))

\* [r for r in reqs if now - r < self.window]
Recent(reqs, t) == SelectSeq(reqs, LAMBDA r : t - r < Ticks(window))

\* _cleanup_old_entries that empties the lists of the idle clients and
\* leaves the clients in the map
_cleanup_old_entries_keeping_idle(cl, t) == [c \in DOMAIN cl |-> Recent(cl[c], t)]

\* _cleanup_old_entries that drops every client
_cleanup_old_entries_dropping_all(cl, t) == SelectSeq(<<>>, LAMBDA c : t >= 0)

\* SlidingWindowRateLimiter._cleanup_old_entries on the client map
_cleanup_old_entries(cl, t) ==
    LET keep == {c \in DOMAIN cl : Recent(cl[c], t) # <<>>}
    IN  [c \in keep |-> Recent(cl[c], t)]

\* current_requests >= self.requests, the test of is_allowed
RateLimited_off_by_one(current_requests) == current_requests > requests

RateLimited(current_requests) == current_requests >= requests

\* the info dict is_allowed returns
RateInfo(allowed, remaining, reset_time) ==
    [allowed |-> allowed, remaining |-> remaining, reset |-> reset_time,
     limit |-> requests]

\* SlidingWindowRateLimiter.is_allowed
is_allowed(client_ip) ==
    LET sweep == now - last_cleanup > Ticks(cleanup_interval)
        swept == IF sweep THEN _cleanup_old_entries(clients, now) ELSE clients
        mine == IF client_ip \in DOMAIN swept THEN swept[client_ip] ELSE <<>>
        pruned == Recent(mine, now)
        current_requests == Len(pruned)
        remaining == Max(0, requests - current_requests)
        reset_time == IntSeconds(now + Ticks(window))
        others == DOMAIN swept \ {client_ip}
        denied == RateLimited(current_requests)
        stored == IF denied THEN pruned ELSE Append(pruned, now)
        \* history
        before == admitted[client_ip]
        fresh == before = <<>>
    IN  /\ last_cleanup' = IF sweep THEN now ELSE last_cleanup
        /\ clients' = [c \in others \cup {client_ip} |->
                          IF c = client_ip THEN stored ELSE swept[c]]
        /\ rlLast' = [client |-> client_ip, time |-> now, swept |-> sweep,
                      info |-> IF denied THEN RateInfo(FALSE, 0, reset_time)
                               ELSE RateInfo(TRUE, remaining - 1, reset_time)]
        /\ admitted' = [admitted EXCEPT ![client_ip] =
                           IF denied THEN @ ELSE Append(@, now)]
        /\ epoch' = [epoch EXCEPT ![client_ip] =
                        IF fresh THEN [first |-> now, n |-> 1, again |-> @.n > 0]
                        ELSE [@ EXCEPT !.n = Min(@ + 1, requests + 2)]]

RateCall == (\E client_ip \in Clients : is_allowed(client_ip)) /\ UNCHANGED now

\* time passes to a later instant; the history forgets the admitted calls
\* that are a full window old by then
RateTick ==
    \E t \in Instants :
        /\ t > now
        /\ now' = t
        /\ admitted' = [c \in Clients |->
                           SelectSeq(admitted[c], LAMBDA r : t - r < Ticks(window))]
        /\ UNCHANGED <<clients, last_cleanup, epoch, rlLast>>

\* SlidingWindowRateLimiter.__init__
RateInit ==
    /\ clients = << >>
    /\ last_cleanup = 0
    /\ admitted = [c \in Clients |-> <<>>]
    /\ epoch = [c \in Clients |-> [first |-> 0, n |-> 0, again |-> FALSE]]
    /\ rlLast = [client |-> 0, time |-> 0, swept |-> FALSE,
                 info |-> RateInfo(FALSE, 0, 0)]

(***************************************************************************)
(* Bounds and inputs of the query engine                                   *)
(***************************************************************************)
\* a value that may be missing: a cell of the data frame (NaN) or an
\* Optional argument or field (None) is the empty tuple, a value v is <<v>>
NaN == <<>>
NoArg == <<>>
Some(v) == <<v>>

\* the number of rows of the CSV file that are loaded
MaxMovies == 4

\* ratings are counted in tenths: 9.0 is 90
Row(title, director, actor, genres, year, score, duration, budget) ==
    [movie_title |-> title, director_name |-> director, actor_1_name |-> actor,
     genres |-> genres, title_year |-> year, imdb_score |-> score,
     duration |-> duration, budget |-> budget]

\* Batman   | Nolan | Bale  | Action|Crime | 2008 | 9.0 | 152 | 185
\* Catwoman | Pitof | Berry | Action       | 2004 | 3.3 | 104 | 100
\* Zorro    | -     | -     | -            | -    | -   | -   | -
\* Robin    | Lee   | -     | Drama        | 1800 | 9.0 | 0   | 5
\* -        | Nolan | Bale  | Crime        | 2008 | 0.0 | 152 | -
MovieRows ==
    << Row(Some(<<66, 97, 116, 109, 97, 110>>), Some(<<78, 111, 108, 97, 110>>),
           Some(<<66, 97, 108, 101>>),
           Some(<<65, 99, 116, 105, 111, 110, 124, 67, 114, 105, 109, 101>>),
           Some(2008), Some(90), Some(152), Some(185)),
       Row(Some(<<67, 97, 116, 119, 111, 109, 97, 110>>), Some(<<80, 105, 116, 111, 102>>),
           Some(<<66, 101, 114, 114, 121>>), Some(<<65, 99, 116, 105, 111, 110>>),
           Some(2004), Some(33), Some(104), Some(100)),
       Row(Some(<<90, 111, 114, 114, 111>>), NaN, NaN, NaN, NaN, NaN, NaN, NaN),
       Row(Some(<<82, 111, 98, 105, 110>>), Some(<<76, 101, 101>>), NaN,
           Some(<<68, 114, 97, 109, 97>>), Some(1800), Some(90), Some(0), Some(5)),
       Row(NaN, Some(<<78, 111, 108, 97, 110>>), Some(<<66, 97, 108, 101>>),
           Some(<<67, 114, 105, 109, 101>>), Some(2008), Some(0), Some(152), NaN) >>

\* a row with another text in the movie_title column
Retitled(row, title) == [row EXCEPT !.movie_title = title]

\* a file whose titles need cleaning: "Batman", " Batman ", a blank title
\* and a missing one
\* Batman   | Nolan | Bale  | Action|Crime | 2008 | 9.0 | 152 | 185
\* _Batman_ | Nolan | Bale  | Action|Crime | 2008 | 9.0 | 152 | 185
\* __       | Pitof | Berry | Action       | 2004 | 3.3 | 104 | 100
\* -        | Nolan | Bale  | Crime        | 2008 | 0.0 | 152 | -
OddRows ==
    << MovieRows[1],
       Retitled(MovieRows[1], Some(<<SP, 66, 97, 116, 109, 97, 110, SP>>)),
       Retitled(MovieRows[2], Some(<<SP, SP>>)),
       MovieRows[5] >>

\* the record sets that may be loaded: the first n rows of the file, and the
\* file whose titles need cleaning
DataSets ==
    {SubSeq(MovieRows, 1, n) : n \in 0..Min(MaxMovies, Len(MovieRows))}
      \cup {SubSeq(OddRows, 1, Min(MaxMovies, Len(OddRows)))}

\* the arguments of search_movies_in_df
Args(query, limit, offset, genre, year, min_rating, max_rating, director, actor, sort_by, sort_order) ==
    [query |-> query, limit |-> limit, offset |-> offset, genre |-> genre,
     year |-> year, min_rating |-> min_rating, max_rating |-> max_rating,
     director |-> director, actor |-> actor, sort_by |-> sort_by,
     sort_order |-> sort_order]

\* "o", a query that many records match
BroadQuery == <<111>>

\* the queries tried alone: "bat", "BAT", "o", "nolan", "BERRY", "crime",
\* "n|c", ".", "xyz"
Queries == {<<98, 97, 116>>, <<66, 65, 84>>, BroadQuery, <<110, 111, 108, 97, 110>>,
            <<66, 69, 82, 82, 89>>, <<99, 114, 105, 109, 101>>, <<110, 124, 99>>,
            <<46>>, <<120, 121, 122>>}

SortFields == {"rating", "year", "title", "duration", "budget"}
SortOrders == {"asc", "desc"}

\* what the search endpoint hands to search_movies_in_df: a query alone,
\* the broad query with every combination of filter values (genre "" or
\* "ACTION", year 2008, ratings 0.0, 5.0 and 9.0, director "NOL", actor
\* "bale") that passes the endpoint's min_rating <= max_rating test, with
\* every sort field and order, and with several limits and offsets
SearchArgs ==
    {Args(q, 10, 0, NoArg, NoArg, NoArg, NoArg, NoArg, NoArg, "rating", "desc") :
        q \in Queries}
    \cup
    {a \in {Args(BroadQuery, 10, 0, g, y, lo, hi, d, ac, "rating", "desc") :
               g \in {NoArg, Some(<<>>), Some(<<65, 67, 84, 73, 79, 78>>)},
               y \in {NoArg, Some(2008)},
               lo \in {NoArg, Some(0), Some(50)},
               hi \in {NoArg, Some(0), Some(90)},
               d \in {NoArg, Some(<<78, 79, 76>>)},
               ac \in {NoArg, Some(<<98, 97, 108, 101>>)}} :
        ~(a.min_rating # NoArg /\ a.max_rating # NoArg
            /\ a.min_rating[1] > a.max_rating[1])}
    \cup
    {Args(BroadQuery, 10, 0, NoArg, NoArg, NoArg, NoArg, NoArg, NoArg, f, o) :
        f \in SortFields, o \in SortOrders}
    \cup
    {Args(BroadQuery, l, off, NoArg, NoArg, NoArg, NoArg, NoArg, NoArg, "title", o) :
        l \in {1, 2, 10}, off \in {0, 1, 3, 7}, o \in SortOrders}

(***************************************************************************)
(* Query engine: search_movies_in_df (main.py)                             *)
(***************************************************************************)
\* pd.notna
notna(cell) == cell # NaN

\* str.upper() on one ASCII character, and str.upper()
UpperChar(c) == IF c >= 97 /\ c <= 122 THEN c - 32 ELSE c
Upper(s) == [i \in 1..Len(s) |-> UpperChar(s[i])]

\* pat in x on str
PyIn(pat, x) == \E i \in 0..(Len(x) - Len(pat)) : SubSeq(x, i + 1, i + Len(pat)) = pat

\* column.str.lower().str.contains(pat, na=False, regex=False) on one cell
lower_contains(cell, pat) == notna(cell) /\ PyIn(pat, Lower(cell[1]))

\* column.str.contains(pat, case=False, na=False, regex=False) on one cell:
\* pandas compares the upper-cased pattern with the upper-cased value
contains_nocase(cell, pat) == notna(cell) /\ PyIn(Upper(pat), Upper(cell[1]))

\* the truth value of an Optional[str] and of an Optional number
TruthyStr(arg) == arg # NoArg /\ arg[1] # <<>>
TruthyNum(arg) == arg # NoArg /\ arg[1] # 0

\* the query mask without the genres column
QueryMatch_no_genre(row, query_lower) ==
    \/ lower_contains(row.movie_title, query_lower)
    \/ lower_contains(row.director_name, query_lower)
    \/ lower_contains(row.actor_1_name, query_lower)

\* title_match | director_match | actor_match | genre_match on one row
QueryMatch(row, query_lower) ==
    \/ lower_contains(row.movie_title, query_lower)
    \/ lower_contains(row.director_name, query_lower)
    \/ lower_contains(row.actor_1_name, query_lower)
    \/ lower_contains(row.genres, query_lower)

\* "Apply search query"
QueryFilter(rows, query) ==
    IF query # <<>> THEN SelectSeq(rows, LAMBDA r : QueryMatch(r, Lower(query)))
    ELSE rows

\* "Apply filters": each if in turn; a comparison with NaN is false
ApplyFilters(rows, a) ==
    LET f1 == IF TruthyStr(a.genre)
              THEN SelectSeq(rows, LAMBDA r : contains_nocase(r.genres, a.genre[1]))
              ELSE rows
        f2 == IF TruthyNum(a.year)
              THEN SelectSeq(f1, LAMBDA r : notna(r.title_year)
                                            /\ r.title_year[1] = a.year[1])
              ELSE f1
        f3 == IF TruthyNum(a.min_rating)
              THEN SelectSeq(f2, LAMBDA r : notna(r.imdb_score)
                                            /\ r.imdb_score[1] >= a.min_rating[1])
              ELSE f2
        f4 == IF TruthyNum(a.max_rating)
              THEN SelectSeq(f3, LAMBDA r : notna(r.imdb_score)
                                            /\ r.imdb_score[1] <= a.max_rating[1])
              ELSE f3
        f5 == IF TruthyStr(a.director)
              THEN SelectSeq(f4, LAMBDA r : contains_nocase(r.director_name,
                                                            a.director[1]))
              ELSE f4
    IN  IF TruthyStr(a.actor)
        THEN SelectSeq(f5, LAMBDA r : contains_nocase(r.actor_1_name, a.actor[1]))
        ELSE f5

\* the filters_applied dict: a key that is not set is NoArg
FiltersApplied(a) ==
    [query |-> IF a.query # <<>> THEN Some(a.query) ELSE NoArg,
     genre |-> IF TruthyStr(a.genre) THEN a.genre ELSE NoArg,
     year |-> IF TruthyNum(a.year) THEN a.year ELSE NoArg,
     min_rating |-> IF TruthyNum(a.min_rating) THEN a.min_rating ELSE NoArg,
     max_rating |-> IF TruthyNum(a.max_rating) THEN a.max_rating ELSE NoArg,
     director |-> IF TruthyStr(a.director) THEN a.director ELSE NoArg,
     actor |-> IF TruthyStr(a.actor) THEN a.actor ELSE NoArg,
     sort_by |-> IF a.sort_by \in SortFields THEN Some(a.sort_by) ELSE NoArg,
     sort_order |-> IF a.sort_by \in SortFields THEN Some(a.sort_order) ELSE NoArg]

\* the dict returned when movies_df is None
NoFilters ==
    [query |-> NoArg, genre |-> NoArg, year |-> NoArg, min_rating |-> NoArg,
     max_rating |-> NoArg, director |-> NoArg, actor |-> NoArg, sort_by |-> NoArg,
     sort_order |-> NoArg]

sort_column_mapping(sort_by) ==
    CASE sort_by = "rating" -> "imdb_score"
      [] sort_by = "year" -> "title_year"
      [] sort_by = "title" -> "movie_title"
      [] sort_by = "duration" -> "duration"
      [] sort_by = "budget" -> "budget"

\* ascending taken for descending
ascending_inverted(sort_order) == sort_order = "desc"

\* ascending = sort_order.lower() == "asc", on the orders the endpoint admits
ascending(sort_order) == sort_order = "asc"

\* x < y on the values of a column
CellLess(column, x, y) == IF column = "movie_title" THEN StrLess(x, y) ELSE x < y

\* rows that all have the column, put in order one after the other; rows
\* with equal values stay in the order given
RECURSIVE Ordered(_, _, _)
Ordered(rows, column, asc) ==
    IF rows = <<>> THEN <<>>
    ELSE LET front == Ordered(SubSeq(rows, 1, Len(rows) - 1), column, asc)
             x == rows[Len(rows)]
             ahead(y) == IF asc THEN ~CellLess(column, x[column][1], y[column][1])
                         ELSE ~CellLess(column, y[column][1], x[column][1])
             n == Cardinality({i \in 1..Len(front) : ahead(front[i])})
         IN  SubSeq(front, 1, n) \o <<x>> \o SubSeq(front, n + 1, Len(front))

\* the arrangements of a sequence
Arrangements(rows) ==
    {[i \in 1..Len(rows) |-> rows[f[i]]] : f \in Permutations(1..Len(rows))}

\* DataFrame.sort_values(column, ascending=asc, na_position="last"): the
\* default sort is not stable, so rows with equal values may come out in
\* any order; the rows without a value follow in the order they had
sort_values(rows, column, asc) ==
    LET present == SelectSeq(rows, LAMBDA r : notna(r[column]))
        missing == SelectSeq(rows, LAMBDA r : ~notna(r[column]))
    IN  {Ordered(p, column, asc) \o missing : p \in Arrangements(present)}

\* rows[start:stop] for 0 <= start
iloc(rows, start, stop) ==
    IF start >= Len(rows) \/ stop <= start THEN <<>>
    ELSE SubSeq(rows, start + 1, Min(stop, Len(rows)))

\* the page that also takes the row after the last
paginate_one_more(rows, offset, limit) == iloc(rows, offset, offset + limit + 1)

\* filtered_df.iloc[offset : offset + limit]
paginate(rows, offset, limit) == iloc(rows, offset, offset + limit)

\* "nan", what str() gives for a missing title
NanText == <<110, 97, 110>>

\* movie_to_dict, on the columns the search works with
movie_to_dict(row) ==
    [title |-> Strip(IF notna(row.movie_title) THEN row.movie_title[1] ELSE NanText),
     year |-> row.title_year,
     rating |-> row.imdb_score,
     genre |-> IF notna(row.genres) THEN Some(Strip(row.genres[1])) ELSE NoArg,
     director |-> IF notna(row.director_name) THEN Some(Strip(row.director_name[1]))
                  ELSE NoArg,
     duration |-> row.duration,
     budget |-> row.budget,
     actors |-> IF notna(row.actor_1_name) THEN Some(Strip(row.actor_1_name[1]))
                ELSE NoArg]

\* the Field constraints of MovieModel: MovieModel(**movie_dict) raises when
\* one of them fails
MovieModelValid(d) ==
    /\ Len(d.title) >= 1 /\ Len(d.title) <= 500
    /\ d.year # NoArg => (d.year[1] >= 1880 /\ d.year[1] <= 2030)
    /\ d.rating # NoArg => (d.rating[1] >= 0 /\ d.rating[1] <= 100)
    /\ d.genre # NoArg => Len(d.genre[1]) <= 200
    /\ d.director # NoArg => Len(d.director[1]) <= 200
    /\ d.duration # NoArg => (d.duration[1] >= 1 /\ d.duration[1] <= 1000)
    /\ d.budget # NoArg => d.budget[1] >= 0
    /\ d.actors # NoArg => Len(d.actors[1]) <= 1000

\* MovieModel(**movie_dict): the validators of title and genre
MovieModel(d) ==
    [d EXCEPT !.title = Strip(@),
              !.genre = IF @ # NoArg /\ @[1] # <<>> THEN Some(Strip(@[1])) ELSE NoArg]

\* the loop ending at the first row that raises
RECURSIVE Converted_until_invalid(_)
Converted_until_invalid(rows) ==
    IF rows = <<>> \/ ~MovieModelValid(movie_to_dict(Head(rows))) THEN <<>>
    ELSE <<Head(rows)>> \o Converted_until_invalid(Tail(rows))

\* the loop that converts the page, skipping the rows that raise
Converted(rows) == SelectSeq(rows, LAMBDA r : MovieModelValid(movie_to_dict(r)))
Movies(rows) == [i \in 1..Len(rows) |-> MovieModel(movie_to_dict(rows[i]))]

\* what a call has worked out: the filtered rows, the sorted rows, the rows
\* of the page that were converted, and the three values returned
SearchResult(a, filtered, sorted, paged, movies, total_count, filters) ==
    [args |-> a, done |-> TRUE, filtered |-> filtered, sorted |-> sorted,
     paged |-> paged, movies |-> movies, total_count |-> total_count,
     filters_applied |-> filters]

\* a call that has not run yet
SearchPending(a) ==
    [args |-> a, done |-> FALSE, filtered |-> <<>>, sorted |-> <<>>, paged |-> <<>>,
     movies |-> <<>>, total_count |-> 0, filters_applied |-> NoFilters]

\* search_movies_in_df: the results it may return on record set df
search_movies_in_df(df, a) ==
    IF df = NoArg
    THEN {SearchResult(a, <<>>, <<>>, <<>>, <<>>, 0, NoFilters)}
    ELSE LET filtered_df == ApplyFilters(QueryFilter(df[1], a.query), a)
             outcomes == IF a.sort_by \in SortFields
                         THEN sort_values(filtered_df, sort_column_mapping(a.sort_by),
                                          ascending(a.sort_order))
                         ELSE {filtered_df}
         IN  {LET paginated_df == paginate(sorted, a.offset, a.limit)
                  paged == Converted(paginated_df)
              IN  SearchResult(a, filtered_df, sorted, paged, Movies(paged),
                               Len(filtered_df), FiltersApplied(a)) :
                 sorted \in outcomes}

\* one call of search_movies_in_df
SearchRun ==
    /\ ~searchCall.done
    /\ searchCall' \in search_movies_in_df(movies_df, searchCall.args)
    /\ UNCHANGED movies_df

\* no call is pending
DataIdle ==
    /\ movies_df = NoArg
    /\ searchCall = SearchResult(
           Args(BroadQuery, 10, 0, NoArg, NoArg, NoArg, NoArg, NoArg, NoArg,
                "rating", "desc"),
           <<>>, <<>>, <<>>, <<>>, 0, NoFilters)

\* the record set is loaded, or the load failed, and a call is to be made
DataInit ==
    /\ movies_df \in {NoArg} \cup {Some(d) : d \in DataSets}
    /\ searchCall \in {SearchPending(a) : a \in SearchArgs}

(***************************************************************************)
(* Bounds and inputs of the API                                            *)
(***************************************************************************)
\* requests that reach the server, and requests between middleware and
\* handler at one time
MaxRequests == 3
MaxInFlight == 1

\* the clock runs until an entry stored at the start has expired
MaxApiTime == Ticks(1)

\* the record sets the CSV file may hold when it is read
ApiDataSets ==
    {SubSeq(MovieRows, 1, Min(MaxMovies, Len(MovieRows))),
     SubSeq(OddRows, 1, Min(MaxMovies, Len(OddRows)))}

\* the parameters of the search requests: "o", best rated first; the same
\* with the genre filter "None"; and the same with min_rating > max_rating,
\* which the handler rejects
ApiSearches ==
    {Args(BroadQuery, 10, 0, NoArg, NoArg, NoArg, NoArg, NoArg, NoArg,
          "rating", "desc"),
     Args(BroadQuery, 10, 0, Some(<<78, 111, 110, 101>>), NoArg, NoArg, NoArg, NoArg, NoArg,
          "rating", "desc"),
     Args(BroadQuery, 10, 0, NoArg, NoArg, Some(50), Some(0), NoArg, NoArg,
          "rating", "desc")}

\* the parameters of the suggestions requests: "bat"
ApiSuggestions == {[query |-> <<98, 97, 116>>, limit |-> 1]}

\* the parameters of a request that takes none
NoParams == [none |-> TRUE]

ApiRequests ==
    {[kind |-> "search", args |-> a] : a \in ApiSearches}
      \cup {[kind |-> "suggestions", args |-> a] : a \in ApiSuggestions}
      \cup {[kind |-> "clear_cache", args |-> NoParams],
            [kind |-> "reload", args |-> NoParams]}

\* a file of FillCount titles, more than the suggestion limit, all below "m"
FillRows == [i \in 1..FillCount |-> Retitled(MovieRows[1], Some(FillWord(i)))]

\* the files the server may have loaded when suggestions are asked for
SuggestDataSets == {SubSeq(MovieRows, 1, Min(MaxMovies, Len(MovieRows))), FillRows}

\* the suggestions asked for when the endpoint is looked at alone: "BAT",
\* "batman" (a whole title) and "M" with limit 3
SuggestCalls ==
    {[query |-> <<66, 65, 84>>, limit |-> 1],
     [query |-> <<98, 97, 116, 109, 97, 110>>, limit |-> 1],
     [query |-> <<77>>, limit |-> 3]}

SuggestRequests ==
    {[kind |-> "suggestions", args |-> a] : a \in SuggestCalls}
      \cup {[kind |-> "reload", args |-> NoParams]}

\* every request of the model
AllRequests == ApiRequests \cup SuggestRequests

(***************************************************************************)
(* Cache keys (main.py): the f-strings of search_movies and get_suggestions *)
(***************************************************************************)
\* str(n) of an int n >= 0
RECURSIVE IntStr(_)
IntStr(n) == IF n < 10 THEN <<48 + n>> ELSE IntStr(n \div 10) \o <<48 + (n % 10)>>

\* str(x) of a float x >= 0 with one decimal, given in tenths: "9.0", "3.3"
FloatStr(tenths) == IntStr(tenths \div 10) \o <<46>> \o IntStr(tenths % 10)

\* str(None)
NoneStr == <<78, 111, 110, 101>>

\* the characters of the words sort_by and sort_order may be
WordStr(w) ==
    CASE w = "rating" -> <<114, 97, 116, 105, 110, 103>>
      [] w = "year" -> <<121, 101, 97, 114>>
      [] w = "title" -> <<116, 105, 116, 108, 101>>
      [] w = "duration" -> <<100, 117, 114, 97, 116, 105, 111, 110>>
      [] w = "budget" -> <<98, 117, 100, 103, 101, 116>>
      [] w = "asc" -> <<97, 115, 99>>
      [] w = "desc" -> <<100, 101, 115, 99>>

\* {arg} in an f-string for an Optional[str], Optional[int], Optional[float]
OptStr(arg) == IF arg = NoArg THEN NoneStr ELSE arg[1]
OptInt(arg) == IF arg = NoArg THEN NoneStr ELSE IntStr(arg[1])
OptFloat(arg) == IF arg = NoArg THEN NoneStr ELSE FloatStr(arg[1])

\* the parts joined by ":"
RECURSIVE Joined(_)
Joined(parts) ==
    IF Len(parts) = 1 THEN parts[1]
    ELSE parts[1] \o <<58>> \o Joined(Tail(parts))

\* f"search:{q}:{limit}:{offset}:{genre}:{year}:{min_rating}:{max_rating}:
\*   {director}:{actor}:{sort_by}:{sort_order}"
search_cache_key(a) ==
    Joined(<< <<115, 101, 97, 114, 99, 104>>, a.query, IntStr(a.limit),
              IntStr(a.offset), OptStr(a.genre), OptInt(a.year),
              OptFloat(a.min_rating), OptFloat(a.max_rating), OptStr(a.director),
              OptStr(a.actor), WordStr(a.sort_by), WordStr(a.sort_order) >>)

\* f"suggestions:{q}:{limit}"
suggestions_cache_key(a) ==
    Joined(<< <<115, 117, 103, 103, 101, 115, 116, 105, 111, 110, 115>>,
              a.query, IntStr(a.limit) >>)

cache_key(req) ==
    IF req.kind = "search" THEN search_cache_key(req.args)
    ELSE suggestions_cache_key(req.args)

(***************************************************************************)
(* Loading (main.py lifespan and reload_data)                              *)
(***************************************************************************)
\* [title.strip() for title in movies_df["movie_title"].dropna() if title.strip()]
movie_titles(rows) ==
    LET named == SelectSeq(rows, LAMBDA r : notna(r.movie_title)
                                           /\ Strip(r.movie_title[1]) # <<>>)
    IN  [i \in 1..Len(named) |-> Strip(named[i].movie_title[1])]

\* avl_tree = AVLTree() followed by avl_tree.insert(clean_title) for the
\* titles from the i-th on; st is the tree, the file and the last call (the
\* binding done \in {next} has each insert worked out once, before the
\* following one)
RECURSIVE AvlLoad(_, _, _)
AvlLoad(st, titles, i) ==
    IF i > Len(titles) THEN st
    ELSE LET k == Strip(titles[i])
             new_root == _insert(st.root, k)
             changed == Addr(new_root) # Addr(st.root)
             next == [root |-> Renumber(new_root, 1),
                      file |-> IF changed THEN _write_tree(new_root) ELSE st.file,
                      last |-> [op |-> "insert", key |-> titles[i], ret |-> TRUE,
                                saved |-> changed, had |-> _search(st.root, k)]]
         IN  CHOOSE loaded \in {AvlLoad(done, titles, i + 1) : done \in {next}} : TRUE

\* the words formTrie records for the titles
LoadedWords(titles) == UNION {Recorded(titles[i]) : i \in 1..Len(titles)}

\* the state of the data structures once the rows have been loaded, given the
\* file and the last AVL call from before
Loaded(rows, old_file, old_last) ==
    LET titles == movie_titles(rows)
        tree == AvlLoad([root |-> Nil, file |-> old_file, last |-> old_last], titles, 1)
    IN  [movies_df |-> Some(rows),
         root |-> tree.root, file |-> tree.file, avlLast |-> tree.last,
         avlKeys |-> {titles[i] : i \in 1..Len(titles)},
         trieRoot |-> TrieFormInto(TrieNode, titles, 1),
         trieWords |-> LoadedWords(titles),
         trieSeen |-> SeenAfterForm({}, titles, 1)]

(***************************************************************************)
(* The request path (main.py): comprehensive_middleware and the handlers   *)
(***************************************************************************)
\* history record of a step of a request: which step, of which request, the
\* status and body of the response if the step gave one, and whether the
\* step called search_movies_in_df or the trie
ApiStep(step, r, status, cached, movies, suggestions, total, engine, trie) ==
    [step |-> step, id |-> r.id, client |-> r.client, req |-> r.req,
     status |-> status, cached |-> cached, movies |-> movies,
     suggestions |-> suggestions, total |-> total, engine |-> engine,
     trie |-> trie, time |-> now]

\* the dict a handler builds and caches
Result(movies, suggestions, total) ==
    [movies |-> movies, suggestions |-> suggestions, total |-> total,
     cached |-> FALSE]

\* no answer on record
NoAnswer == [valid |-> FALSE, key |-> <<>>, movies |-> <<>>, suggestions |-> <<>>,
             total |-> 0, time |-> 0]

\* the answers on record once the keys in gone have left the cache
Forget(ans, gone) ==
    [req \in DOMAIN ans |->
        IF ans[req].valid /\ ans[req].key \in gone THEN NoAnswer ELSE ans[req]]

Range(seq) == {seq[i] : i \in 1..Len(seq)}

\* the middleware hands every request on, whatever is_allowed said
Passes_always(allowed) == TRUE

\* "if not allowed:" of comprehensive_middleware
Passes(allowed) == allowed

\* comprehensive_middleware up to call_next: is_allowed, then either the 429
\* response or the request handed on to its handler
comprehensive_middleware(requests_made) ==
    /\ issued < MaxRequests
    /\ Cardinality(inflight) < MaxInFlight
    /\ \E client_ip \in Clients, req \in requests_made :
          LET r == [id |-> issued + 1, client |-> client_ip, req |-> req,
                    allowed |-> rlLast'.info.allowed]
          IN  /\ is_allowed(client_ip)
              /\ issued' = issued + 1
              /\ IF Passes(rlLast'.info.allowed)
                 THEN /\ inflight' = inflight \cup {r}
                      /\ apiLast' = ApiStep("call_next", r, 0, FALSE, <<>>, <<>>, 0,
                                            FALSE, FALSE)
                 ELSE /\ inflight' = inflight
                      /\ apiLast' = ApiStep("rate_limited", r, 429, FALSE, <<>>, <<>>,
                                            0, FALSE, FALSE)
    /\ UNCHANGED <<avlVars, trieVars, cacheVars, dataVars, answers, concVars, now>>

\* the middleware under the requests of the API
Middleware == comprehensive_middleware(ApiRequests)

\* the middleware when only suggestions and reloads are asked for
SuggestMiddleware == comprehensive_middleware(SuggestRequests)

\* the cached dict as the hit path leaves it, without cached set
cached_result_unmarked(data) == data

\* cached_result["cached"] = True
cached_result_marked(data) == [data EXCEPT !.cached = TRUE]

\* the hit path of both handlers: the dict the cache holds is marked and
\* returned
AnswerFromCache(r, key, got) ==
    LET entry == DictGet(cache, key)
        cached_result == cached_result_marked(entry.data)
    IN  /\ cache' = DictPut(got.cache, [entry EXCEPT !.data = cached_result])
        /\ access_times' = got.access_times
        /\ hits' = hits + 1
        /\ apiLast' = ApiStep("hit", r, 200, cached_result.cached,
                              cached_result.movies, cached_result.suggestions,
                              cached_result.total, FALSE, FALSE)
        /\ UNCHANGED <<misses, evictions, answers, avlVars, trieVars, dataVars>>

\* the end of the miss path of both handlers: cache.set(cache_key, result)
StoreAndAnswer(r, key, got, result, engine, trie) ==
    LET put == setOn(got.cache, got.access_times, key, result, now)
    IN  /\ cache' = put.cache
        /\ access_times' = put.access_times
        /\ misses' = misses + 1
        /\ evictions' = evictions + Len(put.removed)
        /\ answers' = [Forget(answers, Range(put.removed)) EXCEPT ![r.req] =
                          [valid |-> TRUE, key |-> key, movies |-> result.movies,
                           suggestions |-> result.suggestions,
                           total |-> result.total, time |-> now]]
        /\ apiLast' = ApiStep("miss", r, 200, result.cached, result.movies,
                              result.suggestions, result.total, engine, trie)
        /\ UNCHANGED hits

\* search_movies
search_movies(r) ==
    LET a == r.req.args
        key == search_cache_key(a)
        got == getOn(cache, access_times, key, now)
    IN  IF got.hit THEN AnswerFromCache(r, key, got)
        ELSE IF a.min_rating # NoArg /\ a.max_rating # NoArg
                  /\ a.min_rating[1] > a.max_rating[1]
        THEN /\ cache' = got.cache
             /\ access_times' = got.access_times
             /\ misses' = misses + 1
             /\ apiLast' = ApiStep("error", r, 400, FALSE, <<>>, <<>>, 0, FALSE, FALSE)
             /\ UNCHANGED <<hits, evictions, answers, avlVars, trieVars, dataVars>>
        ELSE \E found \in search_movies_in_df(movies_df, a) :
                /\ StoreAndAnswer(r, key, got,
                                  Result(found.movies, <<>>, found.total_count),
                                  TRUE, FALSE)
                /\ searchCall' = found
                /\ UNCHANGED <<movies_df, avlVars, trieVars>>

\* get_suggestions counting the suggestions it returns, not those the trie
\* listed
get_suggestions_counting_page(r) ==
    LET a == r.req.args
        key == suggestions_cache_key(a)
        got == getOn(cache, access_times, key, now)
    IN  IF got.hit THEN AnswerFromCache(r, key, got)
        ELSE LET all_suggestions == printAutoSuggestionsOn(trieRoot, a.query,
                                                           suggestions_list)
                 is_list == all_suggestions.ret.code = 1
                 suggestions == IF is_list
                                THEN SubSeq(all_suggestions.ret.list, 1,
                                            Min(a.limit, Len(all_suggestions.ret.list)))
                                ELSE <<>>
                 total_available == Len(suggestions)
             IN  /\ StoreAndAnswer(r, key, got,
                                   Result(<<>>, suggestions, total_available),
                                   FALSE, TRUE)
                 /\ suggestions_list' = all_suggestions.list
                 /\ trieLast' = [op |-> "printAutoSuggestions", arg |-> a.query,
                                 max |-> 0, ret |-> all_suggestions.ret]
                 /\ UNCHANGED <<trieRoot, trieWords, trieSeen, avlVars, dataVars>>

\* get_suggestions
get_suggestions(r) ==
    LET a == r.req.args
        key == suggestions_cache_key(a)
        got == getOn(cache, access_times, key, now)
    IN  IF got.hit THEN AnswerFromCache(r, key, got)
        ELSE LET all_suggestions == printAutoSuggestionsOn(trieRoot, a.query,
                                                           suggestions_list)
                 is_list == all_suggestions.ret.code = 1
                 total_available == IF is_list THEN Len(all_suggestions.ret.list) ELSE 0
                 suggestions == IF is_list
                                THEN SubSeq(all_suggestions.ret.list, 1,
                                            Min(a.limit, total_available))
                                ELSE <<>>
             IN  /\ StoreAndAnswer(r, key, got,
                                   Result(<<>>, suggestions, total_available),
                                   FALSE, TRUE)
                 /\ suggestions_list' = all_suggestions.list
                 /\ trieLast' = [op |-> "printAutoSuggestions", arg |-> a.query,
                                 max |-> 0, ret |-> all_suggestions.ret]
                 /\ UNCHANGED <<trieRoot, trieWords, trieSeen, avlVars, dataVars>>

\* clear_cache
clear_cache(r) ==
    /\ cache' = <<>>
    /\ access_times' = <<>>
    /\ answers' = [req \in AllRequests |-> NoAnswer]
    /\ apiLast' = ApiStep("clear", r, 200, FALSE, <<>>, <<>>, 0, FALSE, FALSE)
    /\ UNCHANGED <<hits, misses, evictions, avlVars, trieVars, dataVars>>

\* reload_data without cache.clear()
reload_data_keeping_cache(r) ==
    \E rows \in ApiDataSets :
        LET l == Loaded(rows, file, avlLast)
        IN  /\ movies_df' = l.movies_df
            /\ root' = l.root
            /\ file' = l.file
            /\ avlKeys' = l.avlKeys
            /\ avlLast' = l.avlLast
            /\ trieRoot' = l.trieRoot
            /\ trieWords' = l.trieWords
            /\ trieSeen' = l.trieSeen
            /\ suggestions_list' = <<>>
            /\ apiLast' = ApiStep("reload", r, 200, FALSE, <<>>, <<>>, 0, FALSE, FALSE)
            /\ UNCHANGED <<cache, access_times, answers, hits, misses, evictions,
                           trieLast, searchCall>>

\* reload_data with the titles inserted into the tree and the trie that are
\* there, where the code makes new ones
reload_data_onto_old(r) ==
    \E rows \in ApiDataSets :
        LET titles == movie_titles(rows)
            tree == AvlLoad([root |-> root, file |-> file, last |-> avlLast],
                            titles, 1)
        IN  /\ movies_df' = Some(rows)
            /\ root' = tree.root
            /\ file' = tree.file
            /\ avlKeys' = avlKeys \cup {titles[i] : i \in 1..Len(titles)}
            /\ avlLast' = tree.last
            /\ trieRoot' = TrieFormInto(trieRoot, titles, 1)
            /\ trieWords' = trieWords \cup LoadedWords(titles)
            /\ trieSeen' = SeenAfterForm(trieSeen, titles, 1)
            /\ suggestions_list' = <<>>
            /\ cache' = <<>>
            /\ access_times' = <<>>
            /\ answers' = [req \in AllRequests |-> NoAnswer]
            /\ apiLast' = ApiStep("reload", r, 200, FALSE, <<>>, <<>>, 0, FALSE, FALSE)
            /\ UNCHANGED <<hits, misses, evictions, trieLast, searchCall>>

\* reload_data: the CSV file is read again, the tree and the trie are built
\* anew from its titles, and the cache is cleared
reload_data(r) ==
    \E rows \in ApiDataSets :
        LET l == Loaded(rows, file, avlLast)
        IN  /\ movies_df' = l.movies_df
            /\ root' = l.root
            /\ file' = l.file
            /\ avlKeys' = l.avlKeys
            /\ avlLast' = l.avlLast
            /\ trieRoot' = l.trieRoot
            /\ trieWords' = l.trieWords
            /\ trieSeen' = l.trieSeen
            /\ suggestions_list' = <<>>
            /\ cache' = <<>>
            /\ access_times' = <<>>
            /\ answers' = [req \in AllRequests |-> NoAnswer]
            /\ apiLast' = ApiStep("reload", r, 200, FALSE, <<>>, <<>>, 0, FALSE, FALSE)
            /\ UNCHANGED <<hits, misses, evictions, trieLast, searchCall>>

\* call_next: the handler of a request the middleware handed on runs, from
\* its first line to its return, and the response goes out
CallNext(kind) ==
    /\ \E r \in inflight :
          /\ r.req.kind = kind
          /\ inflight' = inflight \ {r}
          /\ CASE kind = "search" -> search_movies(r)
               [] kind = "suggestions" -> get_suggestions(r)
               [] kind = "clear_cache" -> clear_cache(r)
               [] kind = "reload" -> reload_data(r)
    /\ UNCHANGED <<max_size, ttl, cacheLast, rateVars, issued, concVars, now>>

\* periodic_cache_cleanup, the background task, between two requests
ApiCleanup ==
    LET swept == _cleanup_expired(cache, access_times, now)
    IN  /\ cache' = swept.cache
        /\ access_times' = swept.access_times
        /\ UNCHANGED <<max_size, ttl, hits, misses, evictions, cacheLast, avlVars,
                       trieVars, rateVars, dataVars, apiVars, concVars, now>>

\* time passes
ApiTick ==
    /\ now < MaxApiTime
    /\ now' = now + 1
    /\ admitted' = [c \in Clients |->
                       SelectSeq(admitted[c], LAMBDA t : now + 1 - t < Ticks(window))]
    /\ UNCHANGED <<clients, last_cleanup, epoch, rlLast, avlVars, trieVars,
                   cacheVars, dataVars, apiVars, concVars>>

\* the reader threads
Threads == {1, 2}

\* a thread that is in no call
NoCall == [pc |-> "idle", op |-> "none", arg |-> <<>>, pending |-> <<>>,
           ret |-> <<>>]

\* reload_data is not running; while it runs: the statement it is at, the
\* rows it has read, whether the file has a movie_title column, the title it
\* inserts next and, as history, the globals as they were when it began
ReloadIdle == [at |-> "idle", rows |-> <<>>, i |-> 0, titled |-> TRUE, before |-> <<>>]

\* reload_data is not running, no handler has run, no thread is in a call
ConcIdle ==
    /\ reload_at = ReloadIdle
    /\ observed = [by |-> "none", movies_df |-> NoArg, root |-> <<>>, trieRoot |-> <<>>]
    /\ threads = [t \in Threads |-> NoCall]

\* no request has been made
ApiIdle ==
    /\ ConcIdle
    /\ inflight = {}
    /\ issued = 0
    /\ apiLast = [step |-> "init", id |-> 0, client |-> 0,
                  req |-> [kind |-> "none", args |-> NoParams], status |-> 0,
                  cached |-> FALSE, movies |-> <<>>, suggestions |-> <<>>,
                  total |-> 0, engine |-> FALSE, trie |-> FALSE, time |-> 0]
    /\ answers = [req \in AllRequests |-> NoAnswer]

\* the server after lifespan has loaded the data
lifespan(files) ==
    /\ \E rows \in files :
          LET l == Loaded(rows, <<>>, [op |-> "init", key |-> <<>>, ret |-> FALSE,
                                       saved |-> FALSE, had |-> FALSE])
          IN  /\ movies_df = l.movies_df
              /\ root = l.root
              /\ file = l.file
              /\ avlKeys = l.avlKeys
              /\ avlLast = l.avlLast
              /\ trieRoot = l.trieRoot
              /\ trieWords = l.trieWords
              /\ trieSeen = l.trieSeen
    /\ suggestions_list = <<>>
    /\ trieLast = [op |-> "init", arg |-> <<>>, max |-> 0, ret |-> NOT_FOUND]
    /\ searchCall = SearchResult(
           Args(BroadQuery, 10, 0, NoArg, NoArg, NoArg, NoArg, NoArg, NoArg,
                "rating", "desc"),
           <<>>, <<>>, <<>>, <<>>, 0, NoFilters)
    /\ CacheInit
    /\ ttl = 1
    /\ RateInit
    /\ ApiIdle
    /\ now = 0

\* the server started on the full file
ApiInit == lifespan({SubSeq(MovieRows, 1, Min(MaxMovies, Len(MovieRows)))})

(***************************************************************************)
(* reload_data statement by statement, next to the handlers that read the  *)
(* globals (main.py): all of them coroutines of one event loop             *)
(***************************************************************************)
\* a loop that would hand over between any two statements
LoopFree_between_statements == TRUE

\* the event loop runs one coroutine until it reaches an await: reload_data
\* is an async def without an await, so no handler runs between its first
\* statement and its return
LoopFree == reload_at.at = "idle"

\* history: the globals reload_data assigns and the contents of the cache
Globals == [movies_df |-> movies_df, root |-> root, trieRoot |-> trieRoot,
            cache |-> cache]

\* a file read without its movie_title column: the rows without the titles
Untitled(rows) == [i \in 1..Len(rows) |-> Retitled(rows[i], NaN)]

\* movies_df = pd.read_csv(config.MOVIE_CSV_PATH, ...) of a file that has no
\* movie_title column
ReloadReadUntitled ==
    /\ reload_at.at = "idle"
    /\ \E rows \in ApiDataSets :
          /\ movies_df' = Some(Untitled(rows))
          /\ reload_at' = [at |-> "tree", rows |-> Untitled(rows), i |-> 1,
                           titled |-> FALSE, before |-> Globals]
    /\ UNCHANGED <<avlVars, trieVars, cacheVars, rateVars, searchCall, apiVars,
                   observed, threads, now>>

\* movies_df["movie_title"] raises KeyError: the except branch logs it and
\* raises HTTPException(500)
ReloadRaise ==
    /\ reload_at.at = "insert"
    /\ ~reload_at.titled
    /\ reload_at' = ReloadIdle
    /\ UNCHANGED <<avlVars, trieVars, cacheVars, rateVars, dataVars, apiVars,
                   observed, threads, now>>

\* movies_df = pd.read_csv(config.MOVIE_CSV_PATH, ...)
ReloadRead ==
    /\ reload_at.at = "idle"
    /\ \E rows \in DataSets :
          /\ movies_df' = Some(rows)
          /\ reload_at' = [at |-> "tree", rows |-> rows, i |-> 1, titled |-> TRUE,
                           before |-> Globals]
    /\ UNCHANGED <<avlVars, trieVars, cacheVars, rateVars, searchCall, apiVars,
                   observed, threads, now>>

\* avl_tree = AVLTree()
ReloadNewTree ==
    /\ reload_at.at = "tree"
    /\ root' = Nil
    /\ avlKeys' = {}
    /\ reload_at' = [reload_at EXCEPT !.at = "insert"]
    /\ UNCHANGED <<file, avlLast, trieVars, cacheVars, rateVars, dataVars, apiVars,
                   observed, threads, now>>

\* avl_tree.insert(clean_title), for the next title of the loop
ReloadInsert ==
    LET titles == movie_titles(reload_at.rows)
        i == reload_at.i
        tree == AvlLoad([root |-> root, file |-> file, last |-> avlLast],
                        <<titles[i]>>, 1)
    IN  /\ reload_at.at = "insert"
        /\ reload_at.titled
        /\ i <= Len(titles)
        /\ root' = tree.root
        /\ file' = tree.file
        /\ avlLast' = tree.last
        /\ avlKeys' = avlKeys \cup {titles[i]}
        /\ reload_at' = [reload_at EXCEPT !.i = i + 1]
        /\ UNCHANGED <<trieVars, cacheVars, rateVars, dataVars, apiVars, observed,
                       threads, now>>

\* trie = Trie(), once the loop of the inserts is over
ReloadNewTrie ==
    /\ reload_at.at = "insert"
    /\ reload_at.titled
    /\ reload_at.i > Len(movie_titles(reload_at.rows))
    /\ trieRoot' = TrieNode
    /\ suggestions_list' = <<>>
    /\ trieWords' = {}
    /\ trieSeen' = {}
    /\ reload_at' = [reload_at EXCEPT !.at = "form", !.i = 1]
    /\ UNCHANGED <<trieLast, avlVars, cacheVars, rateVars, dataVars, apiVars,
                   observed, threads, now>>

\* trie.formTrie(movie_titles): the insert of the next key
ReloadForm ==
    LET titles == movie_titles(reload_at.rows)
        i == reload_at.i
    IN  /\ reload_at.at = "form"
        /\ i <= Len(titles)
        /\ trieRoot' = TrieFormInto(trieRoot, <<titles[i]>>, 1)
        /\ trieWords' = trieWords \cup LoadedWords(<<titles[i]>>)
        /\ trieSeen' = SeenAfterForm(trieSeen, <<titles[i]>>, 1)
        /\ reload_at' = [reload_at EXCEPT !.i = i + 1]
        /\ UNCHANGED <<suggestions_list, trieLast, avlVars, cacheVars, rateVars,
                       dataVars, apiVars, observed, threads, now>>

\* cache.clear() and the return, once formTrie is over
ReloadReturn ==
    /\ reload_at.at = "form"
    /\ reload_at.i > Len(movie_titles(reload_at.rows))
    /\ cache' = <<>>
    /\ access_times' = <<>>
    /\ reload_at' = ReloadIdle
    /\ UNCHANGED <<max_size, ttl, hits, misses, evictions, cacheLast, avlVars,
                   trieVars, rateVars, dataVars, apiVars, observed, threads, now>>

\* a search or suggestions handler runs: it finds the globals movies_df,
\* avl_tree and trie as they are
Serve(kind) ==
    /\ LoopFree
    /\ observed' = [by |-> kind, movies_df |-> movies_df, root |-> root,
                    trieRoot |-> trieRoot]
    /\ UNCHANGED <<avlVars, trieVars, cacheVars, rateVars, dataVars, apiVars,
                   reload_at, threads, now>>

(***************************************************************************)
(* The reading calls of Trie and AVLTree made by threads that share one    *)
(* trie and one tree (trie.py, avl.py); nothing writes to either           *)
(***************************************************************************)
\* AVLTree.get_suggestions
avl_get_suggestions(prefix, max_suggestions) ==
    IF prefix = <<>> THEN <<>>
    ELSE LET found == SelectSeq(inorder,
                                LAMBDA k : StartsWith(Lower(k), Lower(prefix)))
         IN  SubSeq(found, 1, Min(Len(found), Max(max_suggestions, 1)))

\* the prefixes and caps get_suggestions is called with: "", "a", "A", "b"
\* and 0, 1, 2, 10
SuggestionPrefixes == {<<>>, <<97>>, <<65>>, <<98>>}
SuggestionCaps == {0, 1, 2, 10}

\* one call of AVLTree.get_suggestions
AvlGetSuggestions ==
    \E prefix \in SuggestionPrefixes, max_suggestions \in SuggestionCaps :
        /\ avlLast' = [op |-> "get_suggestions", key |-> prefix,
                       max |-> max_suggestions,
                       ret |-> avl_get_suggestions(prefix, max_suggestions),
                       saved |-> FALSE, had |-> FALSE]
        /\ UNCHANGED <<root, file, avlKeys>>

\* the calls a thread makes: printAutoSuggestions("b"), ("c") and ("q"),
\* get_all_words_with_prefix("b"), Trie.search("batman"),
\* AVLTree.search("Batman"), inorder() and get_suggestions("b")
ReaderCalls ==
    {[op |-> "printAutoSuggestions", arg |-> p] : p \in {<<98>>, <<99>>, <<113>>}}
      \cup {[op |-> "get_all_words_with_prefix", arg |-> <<98>>],
            [op |-> "search", arg |-> <<98, 97, 116, 109, 97, 110>>],
            [op |-> "avl_search", arg |-> <<66, 97, 116, 109, 97, 110>>],
            [op |-> "inorder", arg |-> <<>>],
            [op |-> "avl_get_suggestions", arg |-> <<98>>]}

\* what a call returns when no other call runs besides it
Alone(call) ==
    CASE call.op = "printAutoSuggestions" ->
            printAutoSuggestionsOn(trieRoot, call.arg, <<>>).ret
      [] call.op = "get_all_words_with_prefix" ->
            get_all_words_with_prefixOn(trieRoot, call.arg, 10)
      [] call.op = "search" -> trie_search(call.arg)
      [] call.op = "avl_search" -> search(call.arg)
      [] call.op = "inorder" -> inorder
      [] call.op = "avl_get_suggestions" -> avl_get_suggestions(call.arg, 10)

\* a thread enters a call
ReaderCall ==
    /\ \E t \in Threads, call \in ReaderCalls :
          /\ threads[t].pc \in {"idle", "done"}
          /\ threads' = [threads EXCEPT ![t] =
                 [pc |-> IF call.op = "printAutoSuggestions" THEN "reset" ELSE "read",
                  op |-> call.op, arg |-> call.arg, pending |-> <<>>, ret |-> <<>>]]
    /\ UNCHANGED <<avlVars, trieVars, cacheVars, rateVars, dataVars, apiVars,
                   reload_at, observed, now>>

\* printAutoSuggestions up to the call of _suggestion_rec:
\* self.suggestions_list = [], then the walk along the prefix; pending is
\* the words _suggestion_rec is going to visit, in its order
ReaderReset ==
    \E t \in Threads :
        LET call == threads[t]
            node == Walk(trieRoot, Lower(call.arg), 1)
        IN  /\ call.pc = "reset"
            /\ suggestions_list' = <<>>
            /\ threads' = [threads EXCEPT ![t] =
                   IF IsNil(node) THEN [call EXCEPT !.pc = "done", !.ret = NOT_FOUND]
                   ELSE IF node.children = <<>>
                        THEN [call EXCEPT !.pc = "done", !.ret = NO_COMPLETIONS]
                   ELSE [call EXCEPT !.pc = "collect",
                                     !.pending = _suggestion_rec(node, Lower(call.arg),
                                                                 <<>>)]]
            /\ UNCHANGED <<trieRoot, trieWords, trieSeen, trieLast, avlVars, cacheVars,
                           rateVars, dataVars, apiVars, reload_at, observed, now>>

\* _suggestion_rec at the next word it visits:
\* if len(self.suggestions_list) < 20, self.suggestions_list.append(word)
ReaderCollect ==
    \E t \in Threads :
        LET call == threads[t]
        IN  /\ call.pc = "collect"
            /\ call.pending # <<>>
            /\ suggestions_list' =
                   IF Len(suggestions_list) < SuggestionLimit
                   THEN Append(suggestions_list, Head(call.pending))
                   ELSE suggestions_list
            /\ threads' = [threads EXCEPT ![t].pending = Tail(call.pending)]
            /\ UNCHANGED <<trieRoot, trieWords, trieSeen, trieLast, avlVars, cacheVars,
                           rateVars, dataVars, apiVars, reload_at, observed, now>>

\* return self.suggestions_list if self.suggestions_list else 0
ReaderReturn ==
    /\ \E t \in Threads :
          LET call == threads[t]
          IN  /\ call.pc = "collect"
              /\ call.pending = <<>>
              /\ threads' = [threads EXCEPT ![t] =
                     [call EXCEPT !.pc = "done",
                                  !.ret = IF suggestions_list # <<>>
                                          THEN Suggestions(suggestions_list)
                                          ELSE NOT_FOUND]]
    /\ UNCHANGED <<avlVars, trieVars, cacheVars, rateVars, dataVars, apiVars,
                   reload_at, observed, now>>

\* a call that works on local variables only reads the trie or the tree and
\* returns
ReaderRead ==
    /\ \E t \in Threads :
          /\ threads[t].pc = "read"
          /\ threads' = [threads EXCEPT ![t] =
                 [threads[t] EXCEPT !.pc = "done",
                                    !.ret = Alone([op |-> threads[t].op,
                                                   arg |-> threads[t].arg])]]
    /\ UNCHANGED <<avlVars, trieVars, cacheVars, rateVars, dataVars, apiVars,
                   reload_at, observed, now>>

(***************************************************************************)
(* Specifications: one per component, the others standing still            *)
(***************************************************************************)
SpecAVLInit == AvlInit /\ TrieInit /\ CacheInit /\ RateInit /\ DataIdle /\ ApiIdle /\ now = 0
                  /\ max_size = 1 /\ ttl = 1
SpecAVLNext ==
    \/ AvlInsert /\ UNCHANGED notAvl
    \/ AvlDelete /\ UNCHANGED notAvl
    \/ AvlGetSuggestions /\ UNCHANGED notAvl
SpecAVL == SpecAVLInit /\ [][SpecAVLNext]_vars

SpecTrieInit == SpecAVLInit
SpecTrieNext ==
    \/ TrieInsert /\ UNCHANGED notTrie
    \/ TrieFormTrie /\ UNCHANGED notTrie
    \/ TriePrintAutoSuggestions /\ UNCHANGED notTrie
SpecTrie == SpecTrieInit /\ [][SpecTrieNext]_vars

SpecTrieFillInit == SpecAVLInit
SpecTrieFillNext ==
    \/ FillInsert /\ UNCHANGED notTrie
    \/ FillPrintAutoSuggestions /\ UNCHANGED notTrie
    \/ FillGetAllWords /\ UNCHANGED notTrie
SpecTrieFill == SpecTrieFillInit /\ [][SpecTrieFillNext]_vars

SpecCacheInit == AvlInit /\ TrieInit /\ CacheInit /\ RateInit /\ DataIdle /\ ApiIdle /\ now = 0
SpecCacheNext ==
    \/ CacheGet /\ UNCHANGED notCache
    \/ CacheSet /\ UNCHANGED notCache
    \/ CacheClear /\ UNCHANGED notCache
    \/ CacheCleanup /\ UNCHANGED notCache
    \/ CacheTick /\ UNCHANGED notCache
SpecCache == SpecCacheInit /\ [][SpecCacheNext]_vars

SpecCacheFillInit ==
    /\ AvlInit /\ TrieInit /\ RateInit /\ DataIdle /\ ApiIdle /\ now = 0
    /\ cache = <<>>
    /\ access_times = <<>>
    /\ max_size = FillSize
    /\ ttl = 1
    /\ hits = 0
    /\ misses = 0
    /\ evictions = 0
    /\ cacheLast = [op |-> "init", key |-> 0, value |-> None, ret |-> None,
                    removed |-> <<>>, time |-> 0, had |-> FALSE,
                    after_set |-> FALSE]
SpecCacheFillNext ==
    \/ FillSet /\ UNCHANGED notCache
    \/ FillGet /\ UNCHANGED notCache
    \/ FillTick /\ UNCHANGED notCache
SpecCacheFill == SpecCacheFillInit /\ [][SpecCacheFillNext]_vars

SpecRateInit == SpecAVLInit
SpecRateNext ==
    \/ RateCall /\ UNCHANGED notRate
    \/ RateTick /\ UNCHANGED notRate
SpecRate == SpecRateInit /\ [][SpecRateNext]_vars

SpecSearchInit == AvlInit /\ TrieInit /\ CacheInit /\ RateInit /\ DataInit /\ ApiIdle /\ now = 0
                     /\ max_size = 1 /\ ttl = 1
SpecSearchNext == SearchRun /\ UNCHANGED notData
SpecSearch == SpecSearchInit /\ [][SpecSearchNext]_vars

SpecReloadInit == ApiInit
SpecReloadNext ==
    \/ ReloadRead
    \/ ReloadNewTree
    \/ ReloadInsert
    \/ ReloadNewTrie
    \/ ReloadForm
    \/ ReloadReturn
    \/ Serve("search")
    \/ Serve("suggestions")
SpecReload == SpecReloadInit /\ [][SpecReloadNext]_vars

SpecReadersInit == ApiInit
SpecReadersNext ==
    \/ ReaderCall
    \/ ReaderReset
    \/ ReaderCollect
    \/ ReaderReturn
    \/ ReaderRead
SpecReaders == SpecReadersInit /\ [][SpecReadersNext]_vars

SpecReloadFailingInit == ApiInit
SpecReloadFailingNext ==
    \/ SpecReloadNext
    \/ ReloadReadUntitled
    \/ ReloadRaise
SpecReloadFailing == SpecReloadFailingInit /\ [][SpecReloadFailingNext]_vars

\* the suggestions endpoint and reloads, on a small file and on one with
\* more titles than the suggestion limit
SpecSuggestInit == lifespan(SuggestDataSets)
SpecSuggestNext ==
    \/ SuggestMiddleware
    \/ CallNext("suggestions")
    \/ CallNext("reload")
SpecSuggest == SpecSuggestInit /\ [][SpecSuggestNext]_vars

SpecApiInit == ApiInit
SpecApiNext ==
    \/ Middleware
    \/ CallNext("search")
    \/ CallNext("suggestions")
    \/ CallNext("clear_cache")
    \/ CallNext("reload")
    \/ ApiCleanup
    \/ ApiTick
SpecApi == SpecApiInit /\ [][SpecApiNext]_vars

(***************************************************************************)
(* Properties of the AVL tree                                              *)
(***************************************************************************)
\* every node's stored height is 1 + the larger of its subtrees' heights
RECURSIVE HeightsStored(_)
HeightsStored(node) ==
    \/ IsNil(node)
    \/ /\ node.height = 1 + Max(_height(node.left), _height(node.right))
       /\ HeightsStored(node.left)
       /\ HeightsStored(node.right)

\* every node's balance factor is -1, 0 or 1
RECURSIVE Balanced(_)
Balanced(node) ==
    \/ IsNil(node)
    \/ /\ _height(node.left) - _height(node.right) \in {-1, 0, 1}
       /\ Balanced(node.left)
       /\ Balanced(node.right)

StrictlyAscending(keys) ==
    \A i \in 1..Len(keys) : \A j \in (i + 1)..Len(keys) : StrLess(keys[i], keys[j])

\* C1: after every insert or delete, starting from the empty tree, every
\* node's stored height is 1 + max of its subtrees' heights (empty = 0),
\* every balance factor is in {-1, 0, 1}, and inorder() is strictly ascending.
C1_AvlInvariant ==
    /\ HeightsStored(root)
    /\ Balanced(root)
    /\ StrictlyAscending(inorder)

\* a delete has just taken a key out of a tree that still has height 3
C1_Witness ==
    /\ avlLast.op = "delete"
    /\ avlLast.ret
    /\ _height(root) = 3
    /\ count_nodes(root) >= 4

\* C2: search(K) is true exactly when K trimmed has been inserted and not
\* deleted since, inorder() lists exactly those keys, each once; right after
\* insert(K) search(K) is true and right after delete(K) it is false.
C2_SearchMatchesHistory ==
    /\ \A K \in AvlInputs : search(K) <=> (Strip(K) \in avlKeys)
    /\ {inorder[i] : i \in 1..Len(inorder)} = avlKeys
    /\ Len(inorder) = Cardinality(avlKeys)
    /\ (avlLast.op = "insert" /\ Strip(avlLast.key) # <<>>) => search(avlLast.key)
    /\ avlLast.op = "delete" => ~search(avlLast.key)

\* a key that was in the tree has just been deleted, handed over with
\* blanks around it, and other keys remain findable
C2_Witness ==
    /\ avlLast.op = "delete"
    /\ avlLast.key = Padded(Titles[2])
    /\ avlLast.had
    /\ ~search(Titles[2])
    /\ Cardinality(avlKeys) >= 3
    /\ search(Padded(Titles[1]))

\* the key of the AVLTree call a step makes
AvlCalled == {avlLast'.key}

\* C19 as stated: insert returns false and leaves the tree unchanged when
\* the key is empty, only whitespace, or (after trimming) already in the
\* tree; it returns true only when a new key was added.
C19_AsStated ==
    [][\A key \in AvlCalled :
          insert(key) =>
            LET k == Strip(key)
            IN  /\ (k = <<>> \/ _search(root, k)) => (~avlLast'.ret /\ root' = root)
                /\ avlLast'.ret => (~_search(root, k) /\ _search(root', k))]_vars

\* C20: delete(K) returns false and leaves the tree unchanged when K is
\* empty (or blank) or is not in the tree, including when the tree is empty.
C20_DeleteAbsent ==
    [][\A key \in AvlCalled :
          (delete(key) /\ (Strip(key) = <<>> \/ ~_search(root, Strip(key))))
          => (~avlLast'.ret /\ root' = root /\ file' = file)]_vars

\* delete has just been called with a key that a tree of three or more
\* keys did not hold, among them a key smaller and a key greater than it
C20_Witness ==
    /\ avlLast.op = "delete"
    /\ Strip(avlLast.key) # <<>>
    /\ ~avlLast.had
    /\ ~avlLast.ret
    /\ count_nodes(root) >= 3
    /\ \E i, j \in 1..Len(inorder) : /\ StrLess(inorder[i], Strip(avlLast.key))
                                     /\ StrLess(Strip(avlLast.key), inorder[j])

\* C21 as stated: delete(K) returns true whenever K was in the tree before
\* the call, wherever its node is, and K is absent afterwards.
C21_AsStated ==
    [][\A key \in AvlCalled :
          (delete(key) /\ Strip(key) # <<>> /\ _search(root, Strip(key)))
          => (avlLast'.ret /\ ~_search(root', Strip(key)))]_vars

\* C22: insert(K) when K is already in the tree leaves the tree exactly as
\* it was: same nodes (the root is the same object, so nothing is saved),
\* same shape, same stored heights, same inorder().
C22_InsertExistingKeepsTree ==
    [][\A key \in AvlCalled :
          (insert(key) /\ Strip(key) # <<>> /\ _search(root, Strip(key)))
          => /\ root' = root
             /\ _inorder(root') = _inorder(root)
             /\ ~avlLast'.saved
             /\ file' = file]_vars

\* insert has just been called with a key that a tree of three or more keys
\* already held below its root
C22_Witness ==
    /\ avlLast.op = "insert"
    /\ avlLast.had
    /\ count_nodes(root) >= 3
    /\ root.key # Strip(avlLast.key)
    /\ _search(root, Strip(avlLast.key))

(***************************************************************************)
(* Properties of the rate limiter                                          *)
(***************************************************************************)
\* C3: for every client, the admitted calls of the last window seconds
\* (call time in (now - window, now]) number at most the limit, whatever the
\* order in which the clients' calls arrive; and right after a call for
\* client c its stored timestamps are at most the limit in number and all
\* lie within the last window seconds.
C3_AtMostLimitPerWindow ==
    /\ \A c \in Clients : Len(admitted[c]) <= requests
    /\ (rlLast.client # 0 /\ rlLast.time = now) =>
          /\ rlLast.client \in DOMAIN clients
          /\ Len(clients[rlLast.client]) <= requests
          /\ \A i \in 1..Len(clients[rlLast.client]) :
                /\ clients[rlLast.client][i] <= now
                /\ now - clients[rlLast.client][i] <= Ticks(window)

\* a client has just been denied with the limit of admitted calls in its
\* window while the other client has calls of its own recorded
C3_Witness ==
    /\ rlLast.client = 1
    /\ rlLast.time = now
    /\ ~rlLast.info.allowed
    /\ Len(admitted[1]) = requests
    /\ admitted[2] # <<>>
    /\ admitted[1][1] < now

\* the last call was the n-th of its client's run, made less than one
\* window after the run began
InRun(n) ==
    /\ rlLast.client # 0
    /\ epoch[rlLast.client].n = n
    /\ rlLast.time - epoch[rlLast.client].first < Ticks(window)

\* C4 as stated: the n-th call inside one window is allowed with
\* remaining = L - n when n <= L and denied with remaining = 0 and
\* reset = now + window when n > L; the first call after all earlier
\* admitted calls have aged out is allowed with remaining = L - 1.
C4_AsStated ==
    \A n \in 1..(requests + 2) :
        InRun(n) =>
            IF n <= requests
            THEN rlLast.info.allowed /\ rlLast.info.remaining = requests - n
            ELSE /\ ~rlLast.info.allowed
                 /\ rlLast.info.remaining = 0
                 /\ rlLast.info.reset = rlLast.time + Ticks(window)

\* C4 (amended): as C4, except that the reset reported with a denial is
\* now + window cut down to whole seconds, int(now + window).
C4_WindowCounts ==
    \A n \in 1..(requests + 2) :
        InRun(n) =>
            IF n <= requests
            THEN rlLast.info.allowed /\ rlLast.info.remaining = requests - n
            ELSE /\ ~rlLast.info.allowed
                 /\ rlLast.info.remaining = 0
                 /\ rlLast.info.reset <= rlLast.time + Ticks(window)
                 /\ rlLast.info.reset > rlLast.time + Ticks(window) - TicksPerSec
                 /\ rlLast.info.reset % TicksPerSec = 0

\* a client that was admitted before and whose admitted calls have all aged
\* out began a new run, and its call number limit + 1 in that run was denied
\* at an instant between two whole seconds
C4_Witness ==
    /\ InRun(requests + 1)
    /\ epoch[rlLast.client].again
    /\ ~rlLast.info.allowed
    /\ rlLast.time % TicksPerSec # 0

(***************************************************************************)
(* Properties of the cache                                                 *)
(***************************************************************************)
\* the key and value of the call a step makes, when it makes one
Called == IF cacheLast'.key = 0 THEN {} ELSE {cacheLast'.key}
Given == IF cacheLast'.value = None THEN {} ELSE {cacheLast'.value}

\* C5: with ttl > 0, set(k, v) followed by get(k) with no time elapsed and
\* no call in between returns v, adds exactly 1 to hits and leaves misses.
C5_SetThenGetHits ==
    [][(/\ cacheLast.op = "set"
        /\ cacheLast.time = now
        /\ ttl > 0
        /\ get(cacheLast.key))
       => (/\ cacheLast'.ret = cacheLast.value
           /\ hits' = hits + 1
           /\ misses' = misses)]_vars

\* get(k) has just returned the value that the call right before it, a
\* set(k, v) at the same instant, stored, in a cache with ttl > 0
C5_Witness ==
    /\ cacheLast.op = "get"
    /\ cacheLast.after_set
    /\ ttl > 0
    /\ cacheLast.ret = 2
    /\ hits >= 1

\* C6: get(k) returns the stored value iff k has an entry whose age
\* now - insertedAt is strictly less than ttl, insertedAt being the time of
\* the most recent set(k), which no hit renews; otherwise it returns None,
\* adds 1 to misses and leaves k in neither the value map nor the
\* access-time map.
C6_GetByAge ==
    [][/\ \A k \in Called :
            get(k) =>
              IF DictHas(cache, k) /\ now - DictGet(cache, k).timestamp < Ticks(ttl)
              THEN /\ cacheLast'.ret = DictGet(cache, k).data
                   /\ cacheLast'.ret # None
                   /\ cache' = cache
                   /\ hits' = hits + 1
                   /\ misses' = misses
              ELSE /\ cacheLast'.ret = None
                   /\ misses' = misses + 1
                   /\ hits' = hits
                   /\ ~DictHas(cache', k)
                   /\ ~DictHas(access_times', k)
       /\ \A k \in Called : \A v \in Given :
            set(k, v) => DictGet(cache', k) = [key |-> k, data |-> v, timestamp |-> now]
       /\ \A k \in DictKeys(cache) \cap DictKeys(cache') :
            DictGet(cache', k) # DictGet(cache, k)
            => (k \in Called /\ \E v \in Given : set(k, v))]_vars

\* get(k) has just missed on an entry that was there and had reached the
\* ttl, after the entry had been hit at least once, and the entry is gone
C6_Witness ==
    /\ cacheLast.op = "get"
    /\ cacheLast.had
    /\ cacheLast.ret = None
    /\ ttl > 0
    /\ hits >= 1
    /\ misses = 1
    /\ ~DictHas(cache, cacheLast.key)

\* C7: for max_size >= 1 the cache never holds more than max_size entries,
\* after get, set, clear and the background cleanup alike, and a set always
\* ends with its key stored with its value, also on a full cache.
C7_SizeBounded ==
    /\ Len(cache) <= max_size
    /\ cacheLast.op = "set" =>
          /\ DictHas(cache, cacheLast.key)
          /\ DictGet(cache, cacheLast.key).data = cacheLast.value

\* a set on a full cache of two entries has just evicted and stored its key
C7_Witness ==
    /\ cacheLast.op = "set"
    /\ ~cacheLast.had
    /\ Len(cacheLast.removed) >= 1
    /\ max_size = 2
    /\ Len(cache) = max_size

\* the keys of the entries of c that have not reached the ttl at time t
LiveKeys(c, t) == {c[i].key : i \in {j \in 1..Len(c) : t - c[j].timestamp < Ticks(ttl)}}

\* C8: set evicts for capacity only if the entries left once the expired
\* ones are removed still number max_size or more; it then removes the
\* least recently accessed fifth of them, at least one: nothing is removed
\* while an entry accessed longer ago is kept; evictions grows by the number
\* removed, expired entries go uncounted, and the new key is stored.
C8_EvictsLeastRecent ==
    [][\A k \in Called : \A v \in Given :
         set(k, v) =>
           LET live == LiveKeys(cache, now)
               gone == {cacheLast'.removed[i] : i \in 1..Len(cacheLast'.removed)}
               at(j) == DictGet(access_times, j).time
           IN  /\ gone \subseteq live
               /\ Cardinality(gone) = Len(cacheLast'.removed)
               /\ gone # {} => Cardinality(live) >= max_size
               /\ Cardinality(live) >= max_size =>
                     Cardinality(gone) = Max(1, Cardinality(live) \div 5)
               /\ \A e \in gone : \A j \in live \ gone : at(j) >= at(e)
               /\ evictions' = evictions + Cardinality(gone)
               /\ DictKeys(cache') = (live \ gone) \cup {k}
               /\ DictKeys(access_times') = DictKeys(cache')]_vars

\* the key number max_size + 1 has just been set into a full cache of ten
\* unexpired entries: two entries, a fifth, were evicted, and the entry set
\* first was not among them because a hit had made it recent
C8_Witness ==
    /\ cacheLast.op = "set"
    /\ cacheLast.key = FillSize + 1
    /\ max_size >= 10
    /\ Len(cacheLast.removed) = 2
    /\ evictions = 2
    /\ Len(cache) = max_size - 1
    /\ hits >= 1
    /\ DictHas(cache, 1)
    /\ cacheLast.removed[1] = 2

\* C23: hits, misses and evictions never decrease under any operation,
\* clear included; every get increases exactly one of hits or misses by
\* exactly 1 and no other operation changes those two; evictions increases
\* only when set evicts for capacity, by the number of entries removed, and
\* not on TTL expiry.
C23_CountersMonotonic ==
    [][/\ hits' >= hits
       /\ misses' >= misses
       /\ evictions' >= evictions
       /\ \A k \in Called :
            get(k) => \/ (hits' = hits + 1 /\ misses' = misses)
                      \/ (hits' = hits /\ misses' = misses + 1)
       /\ (hits' # hits \/ misses' # misses) => \E k \in Called : get(k)
       /\ evictions' # evictions => \E k \in Called : \E v \in Given : set(k, v)
       /\ \A k \in Called : \A v \in Given :
            set(k, v) =>
              LET live == LiveKeys(cache, now)
                  gone == live \ DictKeys(cache')
              IN  IF Cardinality(live) >= max_size
                  THEN /\ evictions' > evictions
                       /\ evictions' - evictions \in
                              {Cardinality(gone), Cardinality(gone \cup {k})}
                       /\ evictions' - evictions = Cardinality(gone) + 1 => k \in live
                  ELSE evictions' = evictions
      ]_vars

\* clear has just emptied a cache that had counted a hit, a miss and an
\* eviction, and the three counters stand as they were
C23_Witness ==
    /\ cacheLast.op = "clear"
    /\ cache = <<>>
    /\ hits >= 1
    /\ misses >= 1
    /\ evictions >= 1

(***************************************************************************)
(* Properties of the trie                                                  *)
(***************************************************************************)
\* printAutoSuggestions(prefix) as it would return now
Suggest(prefix) == printAutoSuggestionsOn(trieRoot, prefix, suggestions_list).ret

InList(w, l) == \E i \in 1..Len(l) : l[i] = w

avatar == Lower(TrieWordList[1])
avengers == Lower(TrieWordList[2])
batman == Lower(TrieWordList[3])

\* C9: for a non-empty prefix, printAutoSuggestions returns 0 iff the path
\* of the lowercased prefix does not exist (no inserted word starts with
\* it), -1 iff the path exists and its node has no children (no inserted
\* word goes beyond it), and a non-empty list otherwise. With exactly
\* Avatar, Avengers and Batman inserted, "Av" gives a list with avatar and
\* avengers, and "Batman" gives -1.
C9_ThreeOutcomes ==
    /\ \A p \in TriePrefixes \ {<<>>} :
          LET r == Suggest(p)
              reach == \E w \in trieWords : StartsWith(w, Lower(p))
              beyond == \E w \in trieWords :
                            StartsWith(w, Lower(p)) /\ Len(w) > Len(p)
          IN  /\ r.code = 0 <=> ~reach
              /\ r.code = -1 <=> (reach /\ ~beyond)
              /\ (reach /\ beyond) => (r.code = 1 /\ r.list # <<>>)
    /\ trieWords = {avatar, avengers, batman} =>
          /\ Suggest(TrieWordList[4]).code = 1
          /\ InList(avatar, Suggest(TrieWordList[4]).list)
          /\ InList(avengers, Suggest(TrieWordList[4]).list)
          /\ Suggest(TrieWordList[3]) = NO_COMPLETIONS
    /\ trieLast.op = "printAutoSuggestions" => trieLast.ret = Suggest(trieLast.arg)

\* printAutoSuggestions("Av") has just returned a list of two words from a
\* trie holding exactly Avatar, Avengers and Batman
C9_Witness ==
    /\ trieLast.op = "printAutoSuggestions"
    /\ trieLast.arg = TrieWordList[4]
    /\ trieWords = {avatar, avengers, batman}
    /\ trieLast.ret.code = 1
    /\ Len(trieLast.ret.list) = 2

\* the words searched for
TrieProbes == TrieInputs \cup TriePrefixes \cup FormInputs
                 \cup {Lower(w) : w \in TrieInputs} \cup {Strip(w) : w \in FormInputs}

\* C10: search(W) is true iff some word put in by insert (formTrie inserts
\* the trimmed key) equals W after lowercasing both; a proper prefix of an
\* inserted word that was not itself inserted is not found; inserting the
\* empty string changes nothing.
C10_SearchFindsInserted ==
    /\ [](\A W \in TrieProbes : trie_search(W) <=> (W # <<>> /\ Lower(W) \in trieWords))
    /\ [][(trieLast'.op = "insert" /\ trieLast'.arg = <<>>) => trieRoot' = trieRoot]_vars

\* "Av", a proper prefix of the inserted Avatar and Avengers, is not found,
\* the upper-case "AV" neither, while Avatar is found in either case, and
\* the last call inserted the empty string
C10_Witness ==
    /\ trieLast.op = "insert"
    /\ trieLast.arg = <<>>
    /\ {avatar, avengers} \subseteq trieWords
    /\ ~trie_search(TrieWordList[4])
    /\ ~trie_search(<<65, 86>>)
    /\ trie_search(TrieWordList[1])
    /\ trie_search(avatar)

\* the inserted words at or below the node of path p
Under(p) == {w \in trieWords : StartsWith(w, p)}

\* char c was the Rank-th character to get a child under the node at path
Rank(path, c) == (CHOOSE e \in trieSeen : e[1] = path /\ e[2] = c)[3]

\* the first position at which two words differ, neither being a prefix of
\* the other
FirstDiff(w1, w2) ==
    CHOOSE i \in 1..Min(Len(w1), Len(w2)) :
        w1[i] # w2[i] /\ \A j \in 1..(i - 1) : w1[j] = w2[j]

\* depth-first pre-order: a word comes before its extensions, and of two
\* words that part ways the one whose next character got its child first
\* comes first
Before(w1, w2) ==
    /\ w1 # w2
    /\ ~StartsWith(w1, w2)
    /\ \/ StartsWith(w2, w1)
       \/ LET i == FirstDiff(w1, w2)
              path == SubSeq(w1, 1, i - 1)
          IN  Rank(path, w1[i]) < Rank(path, w2[i])

\* list is the first min(cap, n) entries of the pre-order listing of the n
\* words of S: it is in pre-order, and a word of S is left out only when
\* the cap is reached and every listed word comes before it
FirstInPreOrder(list, S, cap) ==
    /\ Len(list) = Min(cap, Cardinality(S))
    /\ \A i \in 1..Len(list) : list[i] \in S
    /\ \A i \in 1..(Len(list) - 1) : Before(list[i], list[i + 1])
    /\ \A w \in S : \/ InList(w, list)
                     \/ /\ Len(list) = cap
                        /\ \A i \in 1..Len(list) : Before(list[i], w)

\* some inserted word goes beyond the path p: its node has children
HasChildren(p) == \E w \in trieWords : StartsWith(w, p) /\ Len(w) > Len(p)

\* C11: when the prefix node has children, the list returned is exactly the
\* first min(cap, n) entries of the depth-first pre-order listing of the n
\* inserted words at or below the prefix node (a word before its extensions,
\* sibling characters in the order they first got a child), each spelled
\* lowercased prefix + path; cap is 20 for printAutoSuggestions and
\* max_results for get_all_words_with_prefix.
C11_PreOrderUpToCap ==
    LET p == Lower(trieLast.arg)
    IN  /\ (trieLast.op = "printAutoSuggestions" /\ p # <<>> /\ HasChildren(p)) =>
              /\ trieLast.ret.code = 1
              /\ FirstInPreOrder(trieLast.ret.list, Under(p), 20)
        /\ (trieLast.op = "get_all_words_with_prefix" /\ p # <<>> /\ HasChildren(p)) =>
              FirstInPreOrder(trieLast.ret.list, Under(p), trieLast.max)

\* printAutoSuggestions("M") has just returned 20 of more than 20 words:
\* "me" first, before its extensions, and the words below "md" before those
\* below "mc", as "d" got its child under "m" before "c" did
C11_Witness ==
    /\ trieLast.op = "printAutoSuggestions"
    /\ trieLast.arg = <<77>>
    /\ Cardinality(Under(<<109>>)) > 20
    /\ Len(trieLast.ret.list) = 20
    /\ trieLast.ret.list[1] = <<109, 101>>
    /\ trieLast.ret.list[2] = <<109, 101, 97>>
    /\ \E i \in 1..19 : /\ trieLast.ret.list[i] = <<109, 100, 97>>
                         /\ trieLast.ret.list[i + 1] = <<109, 100, 98>>
    /\ \E i, j \in 1..20 : /\ i < j
                            /\ StrLess(trieLast.ret.list[j], trieLast.ret.list[i])

\* C12: printAutoSuggestions("") returns NOT_FOUND (0) and
\* get_all_words_with_prefix("") returns an empty list; every string in a
\* returned list starts with the lowercased prefix and is the lowercased
\* form of an inserted word.
C12_ListedWordsWereInserted ==
    /\ (trieLast.op = "printAutoSuggestions" /\ trieLast.arg = <<>>) =>
          trieLast.ret = NOT_FOUND
    /\ (trieLast.op = "get_all_words_with_prefix" /\ trieLast.arg = <<>>) =>
          trieLast.ret.list = <<>>
    /\ trieLast.op \in {"printAutoSuggestions", "get_all_words_with_prefix"} =>
          \A i \in 1..Len(trieLast.ret.list) :
              /\ StartsWith(trieLast.ret.list[i], Lower(trieLast.arg))
              /\ trieLast.ret.list[i] \in trieWords

\* get_all_words_with_prefix("MD", 3) has just returned three words, the
\* trie holding more than three below "md"
C12_Witness ==
    /\ trieLast.op = "get_all_words_with_prefix"
    /\ trieLast.arg = <<77, 68>>
    /\ trieLast.max = 3
    /\ Len(trieLast.ret.list) = 3
    /\ Cardinality(Under(<<109, 100>>)) > 3

(***************************************************************************)
(* Properties of the query engine                                          *)
(***************************************************************************)
\* q occurs in s as a run of consecutive characters
IsSubstring(q, s) == \E k \in 1..(Len(s) + 1) : StartsWith(SubSeq(s, k, Len(s)), q)

\* the field is there and holds q, letter case aside
FieldHas(cell, q) == cell # NaN /\ IsSubstring(Lower(q), Lower(cell[1]))

\* the record matches the query q
Keeps(r, q) ==
    \/ FieldHas(r.movie_title, q)
    \/ FieldHas(r.director_name, q)
    \/ FieldHas(r.actor_1_name, q)
    \/ FieldHas(r.genres, q)

NoFilterGiven(a) ==
    /\ a.genre = NoArg /\ a.year = NoArg /\ a.min_rating = NoArg
    /\ a.max_rating = NoArg /\ a.director = NoArg /\ a.actor = NoArg

\* a call has run on a loaded record set
Searched == searchCall.done /\ movies_df # NoArg

\* C15: with a non-empty query q and no filters, a record is in the filtered
\* set iff lowercase(q) is a literal substring of the record's lowercase
\* title, director, actor or genre, a missing field never matching; "bat"
\* over the records Batman and Catwoman keeps only Batman.
C15_QueryKeepsSubstringMatches ==
    (Searched /\ searchCall.args.query # <<>> /\ NoFilterGiven(searchCall.args)) =>
        /\ searchCall.filtered =
               SelectSeq(movies_df[1], LAMBDA r : Keeps(r, searchCall.args.query))
        /\ (movies_df[1] = SubSeq(MovieRows, 1, 2)
              /\ searchCall.args.query = <<98, 97, 116>>) =>
                 searchCall.filtered = <<MovieRows[1]>>

\* "crime" has just been searched for with no filters in a record set of
\* three or more records and found in the genres of the first record alone,
\* the third record having no genres
C15_Witness ==
    /\ Searched
    /\ searchCall.args.query = <<99, 114, 105, 109, 101>>
    /\ NoFilterGiven(searchCall.args)
    /\ Len(movies_df[1]) >= 3
    /\ movies_df[1][3].genres = NaN
    /\ searchCall.filtered = <<MovieRows[1]>>

\* C16 as stated: for every combination of filter values the endpoint
\* accepts, the filtered set is exactly the records that match the query and
\* satisfy every supplied filter (genre, director and actor contain the
\* value case-insensitively, year is equal, rating >= min_rating, rating <=
\* max_rating), and each supplied filter appears in the applied-filters map.
C16_AsStated ==
    Searched =>
        LET a == searchCall.args
            passes(r) ==
                /\ Keeps(r, a.query)
                /\ a.genre # NoArg => FieldHas(r.genres, a.genre[1])
                /\ a.year # NoArg => r.title_year = a.year
                /\ a.min_rating # NoArg =>
                      (r.imdb_score # NaN /\ r.imdb_score[1] >= a.min_rating[1])
                /\ a.max_rating # NoArg =>
                      (r.imdb_score # NaN /\ r.imdb_score[1] <= a.max_rating[1])
                /\ a.director # NoArg => FieldHas(r.director_name, a.director[1])
                /\ a.actor # NoArg => FieldHas(r.actor_1_name, a.actor[1])
        IN  /\ searchCall.filtered = SelectSeq(movies_df[1], passes)
            /\ searchCall.filters_applied.genre = a.genre
            /\ searchCall.filters_applied.year = a.year
            /\ searchCall.filters_applied.min_rating = a.min_rating
            /\ searchCall.filters_applied.max_rating = a.max_rating
            /\ searchCall.filters_applied.director = a.director
            /\ searchCall.filters_applied.actor = a.actor

\* the positions offset .. offset+limit-1 (counted from 0) that exist in the
\* sorted list, as indices from 1
PagePositions ==
    {i \in (searchCall.args.offset + 1)..(searchCall.args.offset + searchCall.args.limit) :
        i <= Len(searchCall.sorted)}

\* the records at those positions, in order
PageSlice ==
    [i \in 1..Cardinality(PagePositions) |-> searchCall.sorted[searchCall.args.offset + i]]

\* C17 as stated: total_count is the size of the filtered set whatever limit
\* and offset are; the page is the elements at positions offset ..
\* offset+limit-1 of the sorted filtered list that exist; an offset >=
\* total_count gives an empty page with the true total_count.
C17_AsStated ==
    Searched =>
        /\ searchCall.total_count = Len(searchCall.filtered)
        /\ Len(searchCall.sorted) = Len(searchCall.filtered)
        /\ searchCall.paged = PageSlice
        /\ searchCall.movies = Movies(PageSlice)
        /\ searchCall.args.offset >= searchCall.total_count => searchCall.movies = <<>>

\* C17 (amended): as C17, except that the page holds, of the elements at
\* those positions, only the ones that pass MovieModel validation.
C17_PageOfValidRecords ==
    Searched =>
        LET valid == SelectSeq(PageSlice, LAMBDA r : MovieModelValid(movie_to_dict(r)))
        IN  /\ searchCall.total_count = Len(searchCall.filtered)
            /\ Len(searchCall.sorted) = Len(searchCall.filtered)
            /\ searchCall.paged = valid
            /\ searchCall.movies = Movies(valid)
            /\ searchCall.args.offset >= searchCall.total_count =>
                   searchCall.movies = <<>>

\* a page of limit 2 at offset 1 of four records sorted by title has come
\* back with one movie, Catwoman, the record after it failing validation
C17_Witness ==
    /\ Searched
    /\ searchCall.args.limit = 2
    /\ searchCall.args.offset = 1
    /\ searchCall.total_count = 4
    /\ Len(searchCall.movies) = 1
    /\ searchCall.movies[1].title = <<67, 97, 116, 119, 111, 109, 97, 110>>
    /\ ~MovieModelValid(movie_to_dict(searchCall.sorted[3]))

\* the column a sort field stands for
FieldColumn(sort_by) ==
    CASE sort_by = "rating" -> "imdb_score"
      [] sort_by = "year" -> "title_year"
      [] sort_by = "title" -> "movie_title"
      [] sort_by = "duration" -> "duration"
      [] sort_by = "budget" -> "budget"

\* of any two rows, the later one does not have the smaller value (asc) or
\* the greater value (desc), and no row with a value follows one without
InOrder(rows, column, order) ==
    \A i \in 1..Len(rows) : \A j \in (i + 1)..Len(rows) :
        /\ (rows[i][column] # NaN /\ rows[j][column] # NaN) =>
              IF order = "asc"
              THEN ~CellLess(column, rows[j][column][1], rows[i][column][1])
              ELSE ~CellLess(column, rows[i][column][1], rows[j][column][1])
        /\ rows[i][column] = NaN => rows[j][column] = NaN

\* C18: for sort_by in {rating, year, title, duration, budget}, the records
\* that have the sort field come in non-decreasing order of it for asc and
\* non-increasing order for desc, and every record lacking the field comes
\* after all records that have it, in both directions.
C18_SortedMissingLast ==
    (Searched /\ searchCall.args.sort_by \in SortFields) =>
        /\ InOrder(searchCall.sorted, FieldColumn(searchCall.args.sort_by),
                   searchCall.args.sort_order)
        /\ InOrder(searchCall.paged, FieldColumn(searchCall.args.sort_by),
                   searchCall.args.sort_order)

\* four records have come back sorted by rating, ascending: the lowest
\* rating first, two records of equal rating, and the record without a
\* rating last
C18_Witness ==
    /\ Searched
    /\ searchCall.args.sort_by = "rating"
    /\ searchCall.args.sort_order = "asc"
    /\ Len(searchCall.sorted) = 4
    /\ searchCall.sorted[1].imdb_score = Some(33)
    /\ searchCall.sorted[2].imdb_score = searchCall.sorted[3].imdb_score
    /\ searchCall.sorted[4].imdb_score = NaN
    /\ Len(searchCall.paged) = 3

(***************************************************************************)
(* Properties of the request path                                          *)
(***************************************************************************)
\* the step is the middleware's, on a request that has just come in
MiddlewareStep == issued' = issued + 1

\* the step is a handler's: a request handed on by the middleware leaves
HandlerStep == issued' = issued /\ inflight' # inflight

\* the step leaves the cache, its counters, the engine's and the trie's
\* records alone
NothingTouched ==
    /\ UNCHANGED <<cache, access_times, hits, misses, evictions>>
    /\ UNCHANGED <<searchCall, trieLast, suggestions_list>>
    /\ ~apiLast'.engine
    /\ ~apiLast'.trie

\* C13: for every request, rate_limiter.is_allowed is evaluated before the
\* cache or the engine is touched; a request it denies is answered 429 with
\* hits and misses unchanged, without the engine or the trie being invoked
\* and without anything written to the cache.
C13_DeniedTouchesNothing ==
    [][/\ MiddlewareStep =>
            /\ rlLast'.client = apiLast'.client
            /\ rlLast'.time = now
            /\ NothingTouched
            /\ ~rlLast'.info.allowed =>
                  /\ apiLast'.step = "rate_limited"
                  /\ apiLast'.status = 429
                  /\ inflight' = inflight
       /\ HandlerStep =>
            \A r \in inflight \ inflight' : r.allowed /\ r.id = apiLast'.id
       /\ (hits' # hits \/ misses' # misses \/ evictions' # evictions
             \/ Len(cache') > Len(cache)
             \/ (apiLast' # apiLast /\ (apiLast'.engine \/ apiLast'.trie))) =>
            HandlerStep
      ]_vars

\* a search request has just been denied while the cache holds a fresh
\* answer to it
C13_Witness ==
    /\ apiLast.step = "rate_limited"
    /\ apiLast.status = 429
    /\ apiLast.req.kind = "search"
    /\ answers[apiLast.req].valid
    /\ DictHas(cache, cache_key(apiLast.req))
    /\ Fresh(DictGet(cache, cache_key(apiLast.req)).timestamp, now)
    /\ hits + misses = 2

\* C14: when an admitted search or suggestions request misses the cache and
\* completes successfully, its result is stored under the request's key; a
\* later admitted request with identical parameters, its cache probe less
\* than ttl after that with no eviction of the key, clear or reload in
\* between, is answered from the cache with cached = true and the same
\* movies/suggestions and total count, without invoking the engine or trie.
C14_RepeatAnsweredFromCache ==
    [][HandlerStep =>
         \A r \in inflight \ inflight' :
            /\ apiLast'.step = "miss" =>
                  /\ DictHas(cache', cache_key(r.req))
                  /\ DictGet(cache', cache_key(r.req)).data.movies = apiLast'.movies
                  /\ DictGet(cache', cache_key(r.req)).data.suggestions
                        = apiLast'.suggestions
                  /\ DictGet(cache', cache_key(r.req)).data.total = apiLast'.total
                  /\ apiLast'.status = 200
            /\ (r.req.kind \in {"search", "suggestions"}
                  /\ answers[r.req].valid
                  /\ now - answers[r.req].time < Ticks(ttl)) =>
                  /\ apiLast'.step = "hit"
                  /\ apiLast'.status = 200
                  /\ apiLast'.cached
                  /\ apiLast'.movies = answers[r.req].movies
                  /\ apiLast'.suggestions = answers[r.req].suggestions
                  /\ apiLast'.total = answers[r.req].total
                  /\ ~apiLast'.engine
                  /\ ~apiLast'.trie
                  /\ UNCHANGED <<searchCall, trieLast, suggestions_list>>
      ]_vars

\* a search has just been answered from the cache, a tick after the same
\* search missed, with the movies and the total that were stored
C14_Witness ==
    /\ apiLast.step = "hit"
    /\ apiLast.req.kind = "search"
    /\ apiLast.cached
    /\ answers[apiLast.req].valid
    /\ answers[apiLast.req].time < now
    /\ apiLast.movies = answers[apiLast.req].movies
    /\ Len(apiLast.movies) >= 2
    /\ apiLast.total = Len(apiLast.movies) + 1
    /\ hits = 1
    /\ misses = 1

\* C24 as stated: two search requests (or two suggestions requests) that
\* differ in any of query text, limit, offset, a filter value (a filter being
\* absent versus present included), sort field or sort order get different
\* cache keys, so neither is ever answered with the other's cached result.
C24_AsStated ==
    [][HandlerStep =>
         \A r \in inflight \ inflight' :
            apiLast'.step = "hit" =>
               /\ answers[r.req].valid
               /\ apiLast'.movies = answers[r.req].movies
               /\ apiLast'.suggestions = answers[r.req].suggestions
               /\ apiLast'.total = answers[r.req].total
               /\ \A other \in ApiRequests :
                     (other.kind = r.req.kind /\ other # r.req)
                     => cache_key(other) # cache_key(r.req)
      ]_vars

\* C25 as stated: a value returned by cache.get is a copy or read-only view:
\* whatever the handler does with it, the value stored in the cache for that
\* key stays equal to the value that was given to set.
C25_AsStated ==
    \A req \in ApiRequests :
        (/\ answers[req].valid
         /\ DictHas(cache, answers[req].key)
         /\ DictGet(cache, answers[req].key).timestamp = answers[req].time)
        => DictGet(cache, answers[req].key).data
              = Result(answers[req].movies, answers[req].suggestions,
                       answers[req].total)

\* the titles of a record set: trimmed, and neither missing nor blank
TitlesOf(rows) ==
    {Strip(rows[i].movie_title[1]) :
        i \in {j \in 1..Len(rows) : /\ rows[j].movie_title # NaN
                                     /\ Strip(rows[j].movie_title[1]) # <<>>}}

\* the titles of the record set that is loaded
LoadedTitles == TitlesOf(movies_df[1])

\* the texts a title index is asked about: every title of the two files as
\* it is written, "BATMAN", "catwoman", "bat" and "nan"
IndexProbes ==
    {r.movie_title[1] : r \in {x \in Range(MovieRows) \cup Range(OddRows) :
                                  x.movie_title # NaN}}
      \cup {Upper(MovieRows[1].movie_title[1]), Lower(MovieRows[2].movie_title[1]),
            <<98, 97, 116>>, NanText}

\* C26: after the startup load or a reload over record set R, the keys of the
\* AVL tree are the distinct trimmed non-empty titles of R, and Trie.search(t)
\* is true exactly when t, in lower case, is the lower-case form of one of
\* them; no title of an earlier record set alone is left in either index.
C26_IndexesHoldLoadedTitles ==
    LET keys == inorder
        titles == LoadedTitles
        lowered == {Lower(x) : x \in titles}
    IN  /\ Range(keys) = titles
        /\ Len(keys) = Cardinality(titles)
        /\ \A t \in IndexProbes :
              /\ trie_search(t) <=> (Lower(t) \in lowered)
              /\ (t # <<>> /\ Strip(t) \notin titles) => ~_search(root, Strip(t))

C26_Witness ==
    /\ apiLast.step = "reload"
    /\ movies_df = Some(OddRows)
    /\ LoadedTitles = {MovieRows[1].movie_title[1]}
    /\ ~_search(root, MovieRows[2].movie_title[1])
    /\ ~trie_search(MovieRows[2].movie_title[1])
    /\ trie_search(Upper(MovieRows[1].movie_title[1]))

\* C27: while reload_data runs, no search or suggestions request that is
\* served finds the AVL tree or the trie holding some but not all titles of
\* the new record set, nor the new record set next to the old trie: what a
\* handler finds is a record set with the tree and the trie built from it.
C27_HandlersSeeWholeIndexes ==
    observed.by # "none" =>
        LET titles == TitlesOf(observed.movies_df[1])
            lowered == {Lower(x) : x \in titles}
        IN  /\ Range(_inorder(observed.root)) = titles
            /\ \A t \in IndexProbes :
                  LET node == Walk(observed.trieRoot, Lower(t), 1)
                  IN  (~IsNil(node) /\ node.is_end_of_word) <=> (Lower(t) \in lowered)

\* a handler has run after a reload to another record set, and another
\* reload has since put the new record set next to the old tree and trie
C27_Witness ==
    /\ observed.by = "suggestions"
    /\ observed.movies_df = Some(OddRows)
    /\ reload_at.at = "tree"
    /\ movies_df # observed.movies_df
    /\ root = observed.root
    /\ trieRoot = observed.trieRoot

\* C28 as stated: with no writer, every printAutoSuggestions,
\* get_all_words_with_prefix and search call on the shared trie, and every
\* search, inorder and get_suggestions call on the shared tree, returns what
\* it returns when it runs alone, however the calls of the threads interleave.
C28_AsStated ==
    \A t \in Threads :
        threads[t].pc = "done"
        => threads[t].ret = Alone([op |-> threads[t].op, arg |-> threads[t].arg])

\* C29: the sweep over the whole client map runs only inside is_allowed and
\* only when more than the cleanup interval (60 s) has gone by since the last
\* one; it removes exactly the clients that have no timestamp within the
\* window and keeps every in-window timestamp of every other client, so the
\* answer of is_allowed is the one the admitted calls of the last window
\* give; a client idle for longer than the window is gone from the map after
\* the first sweep that follows.
C29_SweepOnlyDropsIdleClients ==
    [][LET c == rlLast'.client
           sweep == rlLast'.swept
           InWindow(d) == SelectSeq(clients[d], LAMBDA r : now - r < Ticks(window))
       IN  /\ now' # now => (clients' = clients /\ last_cleanup' = last_cleanup)
           /\ now' = now =>
                 /\ sweep <=> now - last_cleanup > Ticks(cleanup_interval)
                 /\ last_cleanup' = IF sweep THEN now ELSE last_cleanup
                 /\ \A d \in Clients \ {c} :
                       IF sweep
                       THEN /\ d \in DOMAIN clients'
                                 <=> (d \in DOMAIN clients /\ InWindow(d) # <<>>)
                            /\ d \in DOMAIN clients' => clients'[d] = InWindow(d)
                       ELSE /\ d \in DOMAIN clients' <=> d \in DOMAIN clients
                            /\ d \in DOMAIN clients' => clients'[d] = clients[d]
                 /\ rlLast'.info.allowed <=> Len(admitted[c]) < requests
                 /\ clients'[c] = admitted'[c]]_vars

\* a sweep has dropped client 2, idle for more than a window, and a later
\* call of client 1, less than a cleanup interval after it, has not swept
C29_Witness ==
    /\ rlLast.client = 1
    /\ ~rlLast.swept
    /\ last_cleanup > 0
    /\ rlLast.time > last_cleanup
    /\ epoch[2].n > 0
    /\ 2 \notin DOMAIN clients
    /\ 1 \in DOMAIN clients

\* C30: when a record of the requested page fails MovieModel validation (its
\* title is empty, say), search leaves out just that record: the other
\* records of the page come back in their sorted order, the call returns,
\* and total_count counts every filtered record.
C30_InvalidRecordLeftOut ==
    Searched =>
        LET page == PageSlice
            passes(i) == MovieModelValid(movie_to_dict(page[i]))
            place(i) == Cardinality({j \in 1..i : passes(j)})
        IN  /\ Len(searchCall.movies) = place(Len(page))
            /\ \A i \in 1..Len(page) :
                  passes(i) =>
                     searchCall.movies[place(i)] = MovieModel(movie_to_dict(page[i]))
            /\ searchCall.total_count = Len(searchCall.filtered)

\* the page of "o" over the file whose titles need cleaning holds four
\* records, the third with a blank title: the other three have come back
C30_Witness ==
    /\ Searched
    /\ movies_df = Some(OddRows)
    /\ Len(PageSlice) = 4
    /\ Strip(PageSlice[3].movie_title[1]) = <<>>
    /\ ~MovieModelValid(movie_to_dict(PageSlice[3]))
    /\ Len(searchCall.movies) = 3
    /\ searchCall.movies[3] = MovieModel(movie_to_dict(PageSlice[4]))
    /\ searchCall.total_count = 4

\* C31 as stated: AVLTree.get_suggestions(prefix, max) returns, for every
\* max >= 0, the first min(max, n) of the n stored keys whose lower-case form
\* starts with the lower-case prefix, in inorder() order; an empty prefix
\* returns the empty list.
C31_AsStated ==
    avlLast.op = "get_suggestions" =>
        LET matching == SelectSeq(_inorder(root),
                                  LAMBDA k : StartsWith(Lower(k), Lower(avlLast.key)))
        IN  avlLast.ret = IF avlLast.key = <<>> THEN <<>>
                          ELSE SubSeq(matching, 1, Min(avlLast.max, Len(matching)))

\* C32 as stated: the pruning in is_allowed removes only the timestamps
\* strictly older than now - window: a request recorded exactly window
\* seconds before now is kept and counts toward the limit for the call made
\* at now.
C32_AsStated ==
    [][now' = now =>
          LET c == rlLast'.client
              mine == IF c \in DOMAIN clients THEN clients[c] ELSE <<>>
              inside == SelectSeq(mine, LAMBDA r : now - r <= Ticks(window))
          IN  /\ Range(inside) \subseteq Range(clients'[c])
              /\ rlLast'.info.allowed <=> Len(inside) < requests]_vars

\* C33: a denied is_allowed call records no timestamp and changes nothing
\* the limiter stores for the client but the pruning; the client's list then
\* holds the limit's worth of admitted calls and no more, so a call made once
\* the oldest of them has left the window is allowed: denials do not prolong
\* the block, and a client that keeps calling is admitted again within one
\* window of being denied.
C33_DenialsRecordNothing ==
    [][now' = now =>
          LET c == rlLast'.client
              mine == IF c \in DOMAIN clients THEN clients[c] ELSE <<>>
              kept == SelectSeq(mine, LAMBDA r : now - r < Ticks(window))
          IN  /\ ~rlLast'.info.allowed =>
                    /\ clients'[c] = kept
                    /\ admitted' = admitted
                    /\ Len(kept) = requests
                    /\ kept = admitted[c]
                    /\ now - kept[1] < Ticks(window)
              /\ (mine = <<>> \/ now - mine[1] >= Ticks(window)) =>
                    rlLast'.info.allowed]_vars

\* client 1, admitted twice and denied once within a window that began at
\* 0, has been admitted again at 60 s, its first admitted call having left
C33_Witness ==
    /\ rlLast.client = 1
    /\ rlLast.info.allowed
    /\ rlLast.time = Ticks(window)
    /\ epoch[1].first = 0
    /\ epoch[1].n = requests + 2
    /\ Len(clients[1]) = requests

\* what the limiter holds of client d that a call at time t counts: the
\* timestamps of d less than a window old
WindowOf(cl, d, t) ==
    IF d \in DOMAIN cl THEN SelectSeq(cl[d], LAMBDA r : t - r < Ticks(window))
    ELSE <<>>

\* C34: the decisions and the remaining values is_allowed returns to a client
\* do not depend on the calls of other clients: a call answers from the
\* caller's own timestamps of the last window and from the time alone, adds
\* to them nothing but its own time, and leaves the timestamps of the last
\* window of every other client as they are, also when it sweeps the map.
C34_ClientsDoNotInterfere ==
    [][now' = now =>
          LET c == rlLast'.client
              own == WindowOf(clients, c, now)
          IN  /\ rlLast'.info.allowed <=> Len(own) < requests
              /\ rlLast'.info.remaining =
                    IF Len(own) < requests THEN requests - Len(own) - 1 ELSE 0
              /\ WindowOf(clients', c, now) =
                    IF Len(own) < requests THEN Append(own, now) ELSE own
              /\ \A d \in Clients \ {c} :
                    WindowOf(clients', d, now) = WindowOf(clients, d, now)]_vars

\* a call of client 2 has swept the map while client 1 had used up its
\* limit: the timestamps of client 1 are still there
C34_Witness ==
    /\ rlLast.client = 2
    /\ rlLast.swept
    /\ 1 \in DOMAIN clients
    /\ Len(WindowOf(clients, 1, now)) = requests

\* C35 as stated: cache.set(k, v) for a key k that has an unexpired entry
\* replaces k's value, creation time and access time and leaves every other
\* unexpired entry in the cache, whatever the size: an overwrite evicts
\* nothing.
C35_AsStated ==
    [][\A k \in Called : \A v \in Given :
         (set(k, v) /\ k \in LiveKeys(cache, now)) =>
           /\ DictGet(cache', k) = [key |-> k, data |-> v, timestamp |-> now]
           /\ DictGet(access_times', k) = [key |-> k, time |-> now]
           /\ \A j \in LiveKeys(cache, now) \ {k} :
                 DictHas(cache', j) /\ DictGet(cache', j) = DictGet(cache, j)
           /\ evictions' = evictions]_vars

\* C36 as stated: when reload_data fails part-way, the record set, the AVL
\* tree, the trie and the contents of the cache are left as they were before
\* the reload.
C36_AsStated ==
    [][(reload_at.at # "idle" /\ ~reload_at.titled /\ reload_at'.at = "idle") =>
          /\ movies_df' = reload_at.before.movies_df
          /\ root' = reload_at.before.root
          /\ trieRoot' = reload_at.before.trieRoot
          /\ cache' = reload_at.before.cache]_vars

\* what the miss path of the handler computes for a request from the record
\* set and the trie as they are
Recomputed(req) ==
    IF req.kind = "search"
    THEN {[movies |-> f.movies, suggestions |-> <<>>, total |-> f.total_count] :
             f \in search_movies_in_df(movies_df, req.args)}
    ELSE LET ret == printAutoSuggestionsOn(trieRoot, req.args.query, <<>>).ret
             total == IF ret.code = 1 THEN Len(ret.list) ELSE 0
         IN  {[movies |-> <<>>,
               suggestions |-> SubSeq(ret.list, 1, Min(req.args.limit, total)),
               total |-> total]}

\* C37: after a reload the cache is empty, so no search or suggestions
\* response computed from the record set of before the reload is served
\* afterwards: a response that comes from the cache is one the handler
\* computes, for a request with that cache key, from the record set and the
\* trie as they are now.
C37_NoAnswerFromBeforeReload ==
    [][/\ (HandlerStep /\ apiLast'.step = "reload") =>
             (cache' = <<>> /\ access_times' = <<>>)
       /\ (HandlerStep /\ apiLast'.step = "hit") =>
             \E q \in ApiRequests :
                 /\ q.kind = apiLast'.req.kind
                 /\ cache_key(q) = cache_key(apiLast'.req)
                 /\ [movies |-> apiLast'.movies, suggestions |-> apiLast'.suggestions,
                     total |-> apiLast'.total] \in Recomputed(q)]_vars

\* a search has been answered from the cache after a reload to the file
\* whose titles need cleaning
C37_Witness ==
    /\ apiLast.step = "hit"
    /\ apiLast.req.kind = "search"
    /\ movies_df = Some(OddRows)
    /\ apiLast.total = 4

\* the indexed titles that start with q, case-insensitively
TitlesStarting(q) == {w \in trieWords : StartsWith(w, Lower(q))}

\* the answer is a list of n of the indexed titles that start with q
HoldsOf(list, n, q) ==
    /\ Len(list) = n
    /\ \A i \in 1..Len(list) : list[i] \in TitlesStarting(q)
    /\ \A i, j \in 1..Len(list) : i # j => list[i] # list[j]

\* the suggestions endpoint has just answered
Suggested == apiLast.req.kind = "suggestions" /\ apiLast.step \in {"hit", "miss", "error"}

KeysIn(node) == Range(_inorder(node))

\* C39 as stated: after every insert or delete call that changed the set of
\* keys in the tree, the file has been rewritten and holds exactly the tree's
\* keys, one per line; a call that changed nothing does not rewrite the file.
C39_AsStated ==
    [][avlLast'.op \in {"insert", "delete"} =>
          /\ KeysIn(root') # KeysIn(root) =>
                /\ avlLast'.saved
                /\ Range(file') = KeysIn(root')
                /\ Len(file') = Cardinality(KeysIn(root'))
          /\ KeysIn(root') = KeysIn(root) => ~avlLast'.saved]_vars

====
